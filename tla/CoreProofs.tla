----------------------------- MODULE CoreProofs -----------------------------
(***************************************************************************)
(* Proofs about the parts of MCCore, for any number of leads, quotations,   *)
(* orders, advances, requests, copies, contacts, codes, files, drawings,    *)
(* stock rows and batches of scans.                                         *)
(*                                                                         *)
(* Each section proves the inductive invariant of one component, which the  *)
(* component's module defines after its properties; the theorems say that   *)
(* the properties of MCCore which are about it always hold.                 *)
(***************************************************************************)
EXTENDS MCCore, Sequences, QuantityTheorems

-----------------------------------------------------------------------------
LEMMA CrmFacts ==
  ASSUME CrmAssumption
  PROVE  /\ IsFiniteSet(Orders) /\ IsFiniteSet(Advances)
         /\ Amounts \subseteq Nat /\ MaxBalance \in Nat /\ OrderTotal \in 0..MaxBalance
         /\ OrderTotal \in Sold!Balances
         /\ None # Gone /\ None \notin {"open", "converted"} \cup Leads \cup {NoLead}
         /\ \A x \in {None, Gone} :
              /\ x \notin Orders /\ x \notin Sold!DealIds /\ x \notin Sold!OrderRows
              /\ x \notin Sold!AdvanceRows /\ x \notin Sold!RequestRows
<1>1. Sold!CrmConstants
  BY DEF CrmAssumption
<1>2. OrderTotal \in Sold!Balances
  BY <1>1 DEF Sold!CrmConstants, Sold!Balances
<1>3. IsFiniteSet(Orders) /\ IsFiniteSet(Advances)
  BY <1>1 DEF Sold!CrmConstants, Sold!IsFiniteSet, IsFiniteSet
<1> QED
  BY <1>1, <1>2, <1>3 DEF Sold!CrmConstants

(* What has been paid of an order, as a total over its payments. *)
AmountOf == [a \in Advances |-> advances[a].amount]

LEMMA PaidIsTotal ==
  ASSUME NEW o
  PROVE  /\ Sold!Paid(o) = Total(AmountOf, Sold!AdvancesOf(o))
         /\ Sold!Paid(o)' = Total(AmountOf', Sold!AdvancesOf(o)')
<1> DEFINE f == [a \in Sold!AdvancesOf(o) |-> advances[a].amount]
<1>1. Sold!Paid(o) = Total(f, Sold!AdvancesOf(o)) /\ Sold!Paid(o)' = Total(f', Sold!AdvancesOf(o)')
  BY DEF Sold!Paid, Sold!Total, Sold!Units, Sold!Cardinality, Total, Units, Cardinality
<1>2. Sold!AdvancesOf(o) \subseteq Advances /\ Sold!AdvancesOf(o)' \subseteq Advances
  BY DEF Sold!AdvancesOf
<1>3. /\ \A a \in Sold!AdvancesOf(o) : f[a] = AmountOf[a]
      /\ \A a \in Sold!AdvancesOf(o)' : f'[a] = AmountOf'[a]
  BY <1>2 DEF AmountOf
<1> HIDE DEF f
<1>4. Total(f, Sold!AdvancesOf(o)) = Total(AmountOf, Sold!AdvancesOf(o))
  BY <1>3, TotalCongruence
<1>5. Total(f', Sold!AdvancesOf(o)') = Total(AmountOf', Sold!AdvancesOf(o)')
  BY <1>3, TotalCongruence
<1> QED
  BY <1>1, <1>4, <1>5

(* What the proofs about Crm need beside its properties.                    *)

Tables ==
  /\ orders \in [Orders -> Sold!OrderRows \cup {None, Gone}]
  /\ advances \in [Advances -> Sold!AdvanceRows \cup {None, Gone}]
  /\ quotes \in [Quotes -> Sold!DealIds \cup {None, Gone}]
  /\ reqs \in [Requests -> Sold!RequestRows \cup {None}]
  /\ conversions \in [Leads -> SUBSET Sold!DealIds]

LeadsConverted ==
  \A l \in Leads : IF leads[l] = "converted" THEN \E d \in Sold!DealIds : conversions[l] = {d}
                   ELSE conversions[l] = {}

(* A request brings a quotation of its order's deal, unless it was deleted   *)
(* meanwhile, and a payment of its order, unless that was; two requests on   *)
(* one payment have read the same order, also when it is deleted meanwhile. *)
OnPayment(r, a) == reqs[r] # None /\ reqs[r].kind \in {"repay", "unpay"} /\ reqs[r].advance = a

PaymentsAgreed ==
  \A a \in Advances, r, s \in Requests :
    OnPayment(r, a) /\ OnPayment(s, a) => reqs[r].order = reqs[s].order

RequestsFit ==
  /\ PaymentsAgreed
  /\ \A r \in Requests : reqs[r] # None =>
       LET q == reqs[r] IN
       /\ quotes[q.row.quote] \in {q.row.deal, Gone}
       /\ q.kind = "place" => q.order = None /\ q.step = 1 /\ q.row.balance = OrderTotal
       /\ q.kind # "place" => q.order \in Orders
       /\ q.kind = "edit" => q.step = 1
       /\ q.kind = "pay" => q.old = 0
       /\ q.kind \in {"pay", "repay"} => q.new \in Amounts
       /\ q.kind \in {"repay", "unpay"} =>
            /\ q.advance \in Advances /\ q.old \in Amounts
            /\ advances[q.advance] # None
            /\ Sold!IsRow(advances[q.advance]) => advances[q.advance].order = q.order

(* What a request read that is alone on its order is there still, and after  *)
(* its first statement the balance it will write is right.                  *)
Told(q) ==
  /\ q.step = 1 => q.row = orders[q.order] /\ q.row.balance = OrderTotal - Sold!Paid(q.order)
  /\ q.step = 1 /\ q.kind \in {"repay", "unpay"} =>
       advances[q.advance] = [order |-> q.order, amount |-> q.old]
  /\ q.step = 2 => q.row.balance + Sold!Change(q) = OrderTotal - Sold!Paid(q.order)

AtOrder(r, o) == reqs[r] # None /\ reqs[r].order = o

RequestsInTurn ==
  \A o \in Orders \ raced :
    /\ \A r, s \in Requests : AtOrder(r, o) /\ AtOrder(s, o) => r = s
    /\ \A r \in Requests : AtOrder(r, o) => o \in Sold!LiveOrders /\ Told(reqs[r])

CrmInv ==
  /\ Sold!BalanceExplained /\ Sold!OrdersDistinct
  /\ Tables /\ LeadsConverted /\ RequestsFit /\ RequestsInTurn

LEMMA AdvancesFit ==
  ASSUME CrmAssumption, Tables, NEW o
  PROVE  /\ Sold!AdvancesOf(o) \subseteq Advances /\ IsFiniteSet(Sold!AdvancesOf(o))
         /\ \A a \in Sold!AdvancesOf(o) : advances[a] \in Sold!AdvanceRows /\ AmountOf[a] \in Nat
         /\ Sold!Paid(o) \in Nat
<1>1. Sold!AdvancesOf(o) \subseteq Advances /\ IsFiniteSet(Sold!AdvancesOf(o))
  BY CrmFacts, FS_Subset DEF Sold!AdvancesOf
<1>2. ASSUME NEW a \in Sold!AdvancesOf(o)
      PROVE  advances[a] \in Sold!AdvanceRows /\ AmountOf[a] \in Nat
  <2>1. advances[a] \in Sold!AdvanceRows
    BY <1>1 DEF Sold!AdvancesOf, Sold!IsRow, Tables
  <2>2. PICK row \in Sold!AdvanceRows : row = advances[a]
    BY <2>1
  <2>3. row.amount \in Nat
    BY CrmFacts DEF Sold!AdvanceRows
  <2> QED
    BY <1>1, <2>1, <2>2, <2>3 DEF AmountOf
<1>3. Total(AmountOf, Sold!AdvancesOf(o)) \in Nat
  BY <1>1, <1>2, TotalNatural
<1> QED
  BY <1>1, <1>2, <1>3, PaidIsTotal

LEMMA PaidSame ==
  ASSUME NEW o, Sold!AdvancesOf(o)' = Sold!AdvancesOf(o),
         \A a \in Sold!AdvancesOf(o) : advances'[a] = advances[a]
  PROVE  Sold!Paid(o)' = Sold!Paid(o)
<1>1. \A a \in Sold!AdvancesOf(o) : AmountOf'[a] = AmountOf[a]
  BY DEF AmountOf, Sold!AdvancesOf
<1>2. Total(AmountOf', Sold!AdvancesOf(o)) = Total(AmountOf, Sold!AdvancesOf(o))
  BY <1>1, TotalCongruence
<1> QED
  BY <1>2, PaidIsTotal

LEMMA PaidNothing ==
  ASSUME NEW o, Sold!AdvancesOf(o) = {}
  PROVE  Sold!Paid(o) = 0
BY PaidIsTotal, TotalEmpty

LEMMA AmountJoin ==
  ASSUME NEW R, IsFiniteSet(R), NEW a, a \notin R, \A b \in R \cup {a} : AmountOf[b] \in Nat
  PROVE  Total(AmountOf, R \cup {a}) - Total(AmountOf, R) = AmountOf[a]
BY TotalJoin

(* A payment that is taken, or changed. *)
LEMMA PaidWritten ==
  ASSUME CrmAssumption, Tables, NEW a \in Advances, NEW row \in Sold!AdvanceRows,
         NEW o, o = row.order, advances'[a] = row,
         \A b \in Advances \ {a} : advances'[b] = advances[b],
         Sold!IsRow(advances[a]) => advances[a].order = o
  PROVE  /\ ~Sold!IsRow(advances[a]) => Sold!Paid(o)' = Sold!Paid(o) + row.amount
         /\ Sold!IsRow(advances[a]) =>
            Sold!Paid(o)' = Sold!Paid(o) + row.amount - advances[a].amount
         /\ \A p : p # o => Sold!Paid(p)' = Sold!Paid(p)
<1> DEFINE R == Sold!AdvancesOf(o) \ {a}
<1>0. /\ row # None /\ row # Gone /\ Sold!IsRow(advances'[a]) /\ advances'[a] = row
      /\ \A b \in Advances \ {a} : advances'[b] = advances[b]
      /\ o \in Orders /\ row.amount \in Nat
  BY CrmFacts DEF Sold!IsRow, Tables, Sold!AdvanceRows
<1>1. Sold!AdvancesOf(o)' = R \cup {a} /\ a \notin R
  BY <1>0 DEF Sold!AdvancesOf, Sold!IsRow
<1>2. /\ IsFiniteSet(R) /\ R \subseteq Sold!AdvancesOf(o)
      /\ \A b \in R \cup {a} : AmountOf'[b] \in Nat
      /\ \A b \in R : AmountOf'[b] = AmountOf[b]
      /\ AmountOf'[a] = row.amount
  <2>1. IsFiniteSet(R)
    BY AdvancesFit, FS_Subset
  <2>2. AmountOf'[a] = row.amount
    BY <1>0 DEF AmountOf
  <2>3. R \subseteq Advances /\ \A b \in R : advances'[b] = advances[b]
    BY <1>0, AdvancesFit
  <2>4. \A b \in R : AmountOf'[b] = AmountOf[b]
    BY <2>3 DEF AmountOf
  <2>5. \A b \in R : AmountOf[b] \in Nat
    BY AdvancesFit
  <2> QED
    BY <1>0, <2>1, <2>2, <2>4, <2>5
<1> HIDE DEF R
<1>3. Total(AmountOf', R \cup {a}) - Total(AmountOf', R) = row.amount
  BY <1>1, <1>2, TotalJoin
<1>4. Total(AmountOf', R) = Total(AmountOf, R)
  BY <1>2, TotalCongruence
<1>5. Total(AmountOf, R) \in Nat
  <2>1. \A b \in R : AmountOf[b] \in Nat
    BY <1>2
  <2> QED
    BY <1>2, <2>1, TotalNatural
<1>5a. Total(AmountOf', R \cup {a}) \in Nat
  <2>1. IsFiniteSet(R \cup {a})
    BY <1>2, FS_AddElement
  <2> QED
    BY <1>2, <2>1, TotalNatural
<1>6. Sold!Paid(o)' = Total(AmountOf, R) + row.amount
  <2>1. Sold!Paid(o)' = Total(AmountOf', R \cup {a})
    BY <1>1, PaidIsTotal
  <2>2. row.amount \in Nat
    BY <1>0
  <2> QED
    BY <1>3, <1>4, <1>5, <1>5a, <2>1, <2>2
<1>7. ASSUME ~Sold!IsRow(advances[a])
      PROVE  Sold!Paid(o)' = Sold!Paid(o) + row.amount
  <2>1. R = Sold!AdvancesOf(o)
    BY <1>7 DEF Sold!AdvancesOf, R
  <2> QED
    BY <1>6, <2>1, PaidIsTotal
<1>8. ASSUME Sold!IsRow(advances[a])
      PROVE  Sold!Paid(o)' = Sold!Paid(o) + row.amount - advances[a].amount
  <2>1. a \in Sold!AdvancesOf(o) /\ Sold!AdvancesOf(o) = R \cup {a}
    BY <1>8 DEF Sold!AdvancesOf, R
  <2>2. AmountOf[a] = advances[a].amount /\ AmountOf[a] \in Nat
    BY <2>1, AdvancesFit DEF AmountOf
  <2>2a. \A b \in R \cup {a} : AmountOf[b] \in Nat
    BY <2>1, AdvancesFit
  <2>2b. IsFiniteSet(R) /\ a \notin R
    BY <1>1, <1>2
  <2>3. Total(AmountOf, R \cup {a}) - Total(AmountOf, R) = AmountOf[a]
    BY <2>2a, <2>2b, AmountJoin
  <2>4. Sold!Paid(o) = Total(AmountOf, R \cup {a}) /\ Sold!Paid(o) \in Nat
    BY <2>1, PaidIsTotal, AdvancesFit
  <2> QED
    BY <1>0, <1>5, <1>6, <2>2, <2>3, <2>4
<1>9. ASSUME NEW p, p # o
      PROVE  Sold!Paid(p)' = Sold!Paid(p)
  <2>0. a \notin Sold!AdvancesOf(p) /\ Sold!AdvancesOf(p) \subseteq Advances
    BY <1>9 DEF Sold!AdvancesOf
  <2>1. Sold!AdvancesOf(p)' = Sold!AdvancesOf(p)
    BY <1>0, <1>9, <2>0 DEF Sold!AdvancesOf
  <2>2. \A b \in Sold!AdvancesOf(p) : advances'[b] = advances[b]
    BY <1>0, <2>0
  <2> QED
    BY <2>1, <2>2, PaidSame
<1>10. Sold!Paid(o) \in Nat
  BY AdvancesFit
<1> QED
  BY <1>0, <1>7, <1>8, <1>9, <1>10

(* A payment that is deleted. *)
LEMMA PaidBack ==
  ASSUME CrmAssumption, Tables, NEW a \in Advances, NEW o,
         Sold!IsRow(advances[a]) => advances[a].order = o,
         advances' = [advances EXCEPT ![a] = Gone]
  PROVE  /\ Sold!IsRow(advances[a]) => Sold!Paid(o)' = Sold!Paid(o) - advances[a].amount
         /\ \A p : p # o => Sold!Paid(p)' = Sold!Paid(p)
<1>0. /\ ~Sold!IsRow(advances'[a]) /\ \A b \in Advances \ {a} : advances'[b] = advances[b]
  BY DEF Sold!IsRow, Tables
<1>1. ASSUME NEW p
      PROVE  Sold!AdvancesOf(p)' = Sold!AdvancesOf(p) \ {a}
  BY <1>0 DEF Sold!AdvancesOf, Sold!IsRow
<1>2. ASSUME NEW p, p # o
      PROVE  Sold!Paid(p)' = Sold!Paid(p)
  <2>0. a \notin Sold!AdvancesOf(p) /\ Sold!AdvancesOf(p) \subseteq Advances
    BY <1>2 DEF Sold!AdvancesOf
  <2>1. Sold!AdvancesOf(p)' = Sold!AdvancesOf(p)
    BY <1>1, <2>0
  <2>2. \A b \in Sold!AdvancesOf(p) : advances'[b] = advances[b]
    BY <1>0, <2>0
  <2> QED
    BY <2>1, <2>2, PaidSame
<1>3. ASSUME Sold!IsRow(advances[a])
      PROVE  Sold!Paid(o)' = Sold!Paid(o) - advances[a].amount
  <2> DEFINE R == Sold!AdvancesOf(o) \ {a}
  <2>1. a \in Sold!AdvancesOf(o) /\ Sold!AdvancesOf(o) = R \cup {a} /\ a \notin R
          /\ Sold!AdvancesOf(o)' = R
    BY <1>1, <1>3 DEF Sold!AdvancesOf
  <2>2. AmountOf[a] = advances[a].amount /\ \A b \in R \cup {a} : AmountOf[b] \in Nat
    BY <2>1, AdvancesFit DEF AmountOf
  <2>3. IsFiniteSet(R) /\ R \subseteq Advances
    BY AdvancesFit, FS_Subset
  <2>4. \A b \in R : AmountOf'[b] = AmountOf[b]
    BY <1>0, <2>1, <2>3 DEF AmountOf
  <2>6. Sold!Paid(o) = Total(AmountOf, R \cup {a}) /\ Sold!Paid(o) \in Nat
          /\ Sold!Paid(o)' = Total(AmountOf', R)
    BY <2>1, PaidIsTotal, AdvancesFit
  <2> HIDE DEF R
  <2>7. Total(AmountOf, R \cup {a}) - Total(AmountOf, R) = AmountOf[a]
    BY <2>1, <2>2, <2>3, TotalJoin
  <2>8. Total(AmountOf', R) = Total(AmountOf, R)
    BY <2>4, TotalCongruence
  <2>9. \A b \in R : AmountOf[b] \in Nat
    BY <2>2
  <2>10. Total(AmountOf, R) \in Nat
    BY <2>3, <2>9, TotalNatural
  <2> QED
    BY <2>2, <2>6, <2>7, <2>8, <2>10
<1> QED
  BY <1>2, <1>3

-----------------------------------------------------------------------------
InTurn(o) ==
  /\ \A r, s \in Requests : AtOrder(r, o) /\ AtOrder(s, o) => r = s
  /\ \A r \in Requests : AtOrder(r, o) => o \in Sold!LiveOrders /\ Told(reqs[r])
BalanceRight(o) ==
  o \in Sold!LiveOrders /\ ~Sold!Busy(o) => orders[o].balance = OrderTotal - Sold!Paid(o)
OrderFine(o) == InTurn(o) /\ BalanceRight(o)

PaymentsOwned == \A a \in Advances : Sold!IsRow(advances[a]) =>
  advances[a].order \in Sold!LiveOrders
LeadsTyped ==
  /\ leads \in [Leads -> {None, "open", "converted"}]
  /\ deals \in [Sold!DealIds -> Leads \cup {NoLead, None}]
  /\ raced \subseteq Orders

LEMMA CrmParts ==
  ASSUME CrmAssumption
  PROVE  CrmInv <=> /\ Tables /\ LeadsTyped /\ LeadsConverted
                       /\ Sold!OrdersDistinct /\ RequestsFit
                    /\ PaymentsOwned /\ \A o \in Orders \ raced : OrderFine(o)
<1>2. ASSUME Tables
      PROVE  Sold!TypeOK <=> LeadsTyped
  <2>1. Sold!TypeOK => LeadsTyped
    BY DEF Sold!TypeOK, LeadsTyped
  <2>2. ASSUME LeadsTyped
        PROVE  Sold!TypeOK
    <3>1. /\ \A q \in Quotes : quotes[q] \in Sold!DealIds \cup {None, Gone}
          /\ \A o \in Sold!LiveOrders : orders[o] \in Sold!OrderRows
          /\ \A a \in Advances : Sold!IsRow(advances[a]) => advances[a] \in Sold!AdvanceRows
      BY <1>2 DEF Tables, Sold!LiveOrders, Sold!IsRow
    <3>2. /\ leads \in [Leads -> {None, "open", "converted"}]
          /\ deals \in [Sold!DealIds -> Leads \cup {NoLead, None}]
          /\ raced \subseteq Orders
      BY <2>2 DEF LeadsTyped
    <3> QED
      BY <3>1, <3>2, Zenon DEF Sold!TypeOK
  <2> QED
    BY <2>1, <2>2
<1>3. Sold!LiveOrders \subseteq Orders
  BY DEF Sold!LiveOrders
<1> QED
  BY <1>2, <1>3
     DEF CrmInv, Sold!BalanceExplained, PaymentsOwned, RequestsInTurn, OrderFine,
       InTurn, BalanceRight

LEMMA LiveRows ==
  ASSUME CrmAssumption, Tables
  PROVE  /\ Sold!LiveOrders \subseteq Orders /\ IsFiniteSet(Sold!LiveOrders)
         /\ \A o \in Orders : o \in Sold!LiveOrders <=> orders[o] \in Sold!OrderRows
         /\ \A o \in Sold!LiveOrders : /\ orders[o].number \in Nat \ {0}
                                          /\ orders[o].deal \in Sold!DealIds
                                  /\ orders[o].quote \in Quotes
                                     /\ orders[o].balance \in Sold!Balances
<1>1. Sold!LiveOrders \subseteq Orders /\ \A o \in Orders : o \in Sold!LiveOrders <=>
        orders[o] \in Sold!OrderRows
  BY CrmFacts DEF Sold!LiveOrders, Sold!IsRow, Tables
<1>2. IsFiniteSet(Sold!LiveOrders)
  BY <1>1, CrmFacts, FS_Subset
<1>3. ASSUME NEW o \in Sold!LiveOrders
      PROVE  /\ orders[o].number \in Nat \ {0} /\ orders[o].deal \in Sold!DealIds
             /\ orders[o].quote \in Quotes /\ orders[o].balance \in Sold!Balances
  <2>1. PICK row \in Sold!OrderRows : row = orders[o]
    BY <1>1
  <2>2. /\ row.number \in Nat \ {0} /\ row.deal \in Sold!DealIds
        /\ row.quote \in Quotes /\ row.balance \in Sold!Balances
    BY DEF Sold!OrderRows
  <2> QED
    BY <2>1, <2>2
<1> QED
  BY <1>1, <1>2, <1>3

LEMMA NumberedOn ==
  ASSUME CrmAssumption, Tables
  PROVE  Sold!LastNumber \in Nat
<1>1. CASE Sold!LiveOrders = {}
  BY <1>1 DEF Sold!LastNumber
<1>2. ASSUME Sold!LiveOrders # {}
      PROVE  Sold!LastNumber \in Nat
  <2> DEFINE S == {orders[o].number : o \in Sold!LiveOrders}
             f == [o \in Sold!LiveOrders |-> orders[o].number]
  <2>1. S \subseteq Nat /\ S # {}
    BY <1>2, LiveRows
  <2>2. \A o \in Sold!LiveOrders : f[o] \in Nat
    BY LiveRows
  <2>3. PICK M \in Nat : \A o \in Sold!LiveOrders : f[o] \in 0..M
    <3> HIDE DEF f
    <3> QED
      BY <2>2, LiveRows, RowsBounded
  <2>4. \A n \in S : n <= M
    BY <2>3
  <2>5. PICK n \in S : \A k \in S : k <= n
    BY <2>1, <2>4, GreatestNumber
  <2>6. \A p \in Sold!LiveOrders : orders[p].number <= n
    BY <2>5
  <2>7. Sold!LastNumber = CHOOSE x \in S : \A p \in Sold!LiveOrders : orders[p].number <= x
    BY <1>2 DEF Sold!LastNumber
  <2> HIDE DEF S
  <2>8. Sold!LastNumber \in S
    BY <2>6, <2>7
  <2> QED
    BY <2>1, <2>8
<1> QED
  BY <1>1, <1>2

(* An order is inserted or saved over, and orders that keep what is unique. *)
LEMMA OneInserted ==
  ASSUME CrmAssumption, Tables, Sold!OrdersDistinct, NEW o \in Orders,
         NEW row \in Sold!OrderRows,
         Sold!Insertable(o, row), quotes[row.quote] \in {row.deal, Gone},
         orders' = [orders EXCEPT ![o] = row], quotes' = quotes
  PROVE  Sold!OrdersDistinct'
<1>1. /\ orders'[o] = row /\ \A p \in Orders \ {o} : orders'[p] = orders[p]
      /\ Sold!LiveOrders' = Sold!LiveOrders \cup {o}
  BY CrmFacts DEF Tables, Sold!LiveOrders, Sold!IsRow
<1>2. quotes[row.quote] = row.deal
  BY DEF Sold!Insertable
<1>3. Sold!LiveOrders \subseteq Orders
  BY LiveRows
<1> QED
  BY <1>1, <1>2, <1>3 DEF Sold!OrdersDistinct, Sold!Insertable

LEMMA OrdersStayDistinct ==
  ASSUME Sold!OrdersDistinct,
         \A o \in Sold!LiveOrders' : /\ o \in Sold!LiveOrders
                                /\ orders'[o].number = orders[o].number
                                /\ orders'[o].deal = orders[o].deal
                                /\ orders'[o].quote = orders[o].quote
                                /\ quotes'[orders[o].quote] = quotes[orders[o].quote]
  PROVE  Sold!OrdersDistinct'
BY DEF Sold!OrdersDistinct

(* An order that a step does not concern. *)
LEMMA FineKept ==
  ASSUME NEW o \in Orders, OrderFine(o), orders'[o] = orders[o], Sold!Paid(o)' = Sold!Paid(o),
         \A s \in Requests : reqs'[s] = reqs[s] \/ (~AtOrder(s, o) /\ ~AtOrder(s, o)'),
         \A s \in Requests : AtOrder(s, o) /\ reqs[s].step = 1
           /\ reqs[s].kind \in {"repay", "unpay"} =>
           advances'[reqs[s].advance] = advances[reqs[s].advance]
  PROVE  OrderFine(o)'
<1>1. \A s \in Requests : AtOrder(s, o)' <=> AtOrder(s, o)
  BY DEF AtOrder
<1>2. o \in Sold!LiveOrders' <=> o \in Sold!LiveOrders
  BY DEF Sold!LiveOrders, Sold!IsRow
<1>3. Sold!Busy(o)' <=> Sold!Busy(o)
  BY <1>1 DEF Sold!Busy, AtOrder
<1>4. ASSUME NEW s \in Requests, AtOrder(s, o)
      PROVE  Told(reqs[s])'
  <2>1. reqs'[s] = reqs[s] /\ Told(reqs[s]) /\ reqs[s].order = o
    BY <1>4 DEF OrderFine, InTurn, AtOrder
  <2> QED
    BY <1>4, <2>1 DEF Told, Sold!Change
<1> QED
  BY <1>1, <1>2, <1>3, <1>4 DEF OrderFine, InTurn, BalanceRight

LEMMA AllFineKept ==
  ASSUME \A o \in Orders \ raced : OrderFine(o), raced \subseteq raced',
         UNCHANGED <<orders, advances, reqs>>
  PROVE  \A o \in Orders \ raced' : OrderFine(o)'
<1> SUFFICES ASSUME NEW o \in Orders \ raced'
             PROVE  OrderFine(o)'
  OBVIOUS
<1>1. Sold!AdvancesOf(o)' = Sold!AdvancesOf(o)
  BY DEF Sold!AdvancesOf, Sold!IsRow
<1>2. Sold!Paid(o)' = Sold!Paid(o)
  BY <1>1, PaidSame
<1> QED
  BY <1>2, FineKept

(* The request that was alone on an order has ended. *)
LEMMA FineEnded ==
  ASSUME CrmAssumption, Tables, NEW o \in Orders, OrderFine(o), NEW r \in Requests,
         AtOrder(r, o),
         reqs' = [reqs EXCEPT ![r] = None],
         o \in Sold!LiveOrders' => orders'[o].balance = OrderTotal - Sold!Paid(o)'
  PROVE  OrderFine(o)'
<1>1. \A s \in Requests : ~AtOrder(s, o)'
  BY DEF AtOrder, OrderFine, InTurn, Tables
<1> QED
  BY <1>1 DEF OrderFine, InTurn, BalanceRight

LEMMA CrmJoined ==
  ASSUME CrmAssumption, Tables', LeadsTyped', LeadsConverted', Sold!OrdersDistinct',
         RequestsFit',
         PaymentsOwned', \A o \in Orders \ raced' : OrderFine(o)'
  PROVE  CrmInv'
<1>1. Sold!TypeOK'
  <2>1. /\ \A q \in Quotes : quotes'[q] \in Sold!DealIds \cup {None, Gone}
        /\ \A o \in Sold!LiveOrders' : orders'[o] \in Sold!OrderRows
        /\ \A a \in Advances : Sold!IsRow(advances'[a]) => advances'[a] \in Sold!AdvanceRows
    BY DEF Tables, Sold!LiveOrders, Sold!IsRow
  <2>2. /\ leads' \in [Leads -> {None, "open", "converted"}]
        /\ deals' \in [Sold!DealIds -> Leads \cup {NoLead, None}]
        /\ raced' \subseteq Orders
    BY DEF LeadsTyped
  <2>3. \A a \in Advances : Sold!IsRow(advances[a])' => advances'[a] \in Sold!AdvanceRows
    BY <2>1 DEF Sold!IsRow
  <2> QED
    BY <2>1, <2>2, <2>3, Zenon DEF Sold!TypeOK
<1>2. Sold!LiveOrders' \subseteq Orders
  BY DEF Sold!LiveOrders
<1> QED
  BY <1>1, <1>2
     DEF CrmInv, Sold!BalanceExplained, PaymentsOwned, RequestsInTurn, OrderFine,
       InTurn, BalanceRight

(* Steps on leads, deals and quotations only. *)
LEMMA RegistryKept ==
  ASSUME CrmAssumption, CrmInv, UNCHANGED <<orders, advances, reqs, raced>>,
         LeadsTyped', LeadsConverted', conversions' \in [Leads -> SUBSET Sold!DealIds],
         quotes' \in [Quotes -> Sold!DealIds \cup {None, Gone}],
         \A q \in Quotes : quotes[q] # None => quotes'[q] \in {quotes[q], Gone},
         \A o \in Sold!LiveOrders : quotes'[orders[o].quote] = quotes[orders[o].quote]
  PROVE  CrmInv'
<1>0. /\ Tables /\ Sold!OrdersDistinct /\ RequestsFit /\ PaymentsOwned
      /\ \A o \in Orders \ raced : OrderFine(o)
  BY CrmParts
<1>1. Tables'
  BY <1>0 DEF Tables
<1>2. Sold!LiveOrders' = Sold!LiveOrders
  BY DEF Sold!LiveOrders, Sold!IsRow
<1>3. Sold!OrdersDistinct'
  BY <1>0, <1>2, OrdersStayDistinct
<1>4. RequestsFit'
  <2>0. PaymentsAgreed'
    BY <1>0 DEF RequestsFit, PaymentsAgreed, OnPayment
  <2> SUFFICES ASSUME NEW r \in Requests, reqs[r] # None
               PROVE  quotes'[reqs[r].row.quote] \in {reqs[r].row.deal, Gone}
    BY <1>0, <2>0 DEF RequestsFit, Sold!IsRow
  <2>1. PICK q \in Sold!RequestRows : q = reqs[r]
    BY <1>0 DEF Tables
  <2>2. q.row \in Sold!OrderRows
    BY DEF Sold!RequestRows
  <2>3. q.row.quote \in Quotes /\ q.row.deal \in Sold!DealIds
    BY <2>2 DEF Sold!OrderRows
  <2>4. quotes[q.row.quote] \in {q.row.deal, Gone}
    BY <1>0, <2>1 DEF RequestsFit
  <2> QED
    BY <2>1, <2>3, <2>4, CrmFacts
<1>5. PaymentsOwned'
  BY <1>0, <1>2 DEF PaymentsOwned, Sold!IsRow
<1>6. \A o \in Orders \ raced' : OrderFine(o)'
  BY <1>0, AllFineKept
<1> QED
  BY <1>1, <1>3, <1>4, <1>5, <1>6, CrmJoined

LEMMA RegistrySteps ==
  ASSUME CrmAssumption, CrmInv,
         \/ \E l \in Leads : Sold!AddLead(l)
         \/ \E l \in Leads, c \in Codes : Sold!ConvertLead(l, c)
         \/ \E d \in HandIds, l \in Leads \cup {NoLead} : Sold!AddDeal(d, l)
         \/ \E q \in Quotes, d \in Sold!DealIds : Sold!AddQuotation(q, d)
         \/ \E q, source \in Quotes, d \in Sold!DealIds : Sold!ImportQuotation(q, source, d)
         \/ \E q \in Quotes : Sold!DeleteQuotation(q)
  PROVE  CrmInv'
<1>0. /\ Tables /\ LeadsTyped /\ LeadsConverted
  BY CrmParts
<1>a. /\ quotes \in [Quotes -> Sold!DealIds \cup {None, Gone}]
      /\ conversions \in [Leads -> SUBSET Sold!DealIds]
      /\ leads \in [Leads -> {None, "open", "converted"}]
      /\ deals \in [Sold!DealIds -> Leads \cup {NoLead, None}] /\ raced \subseteq Orders
  BY <1>0 DEF Tables, LeadsTyped
<1>1. ASSUME NEW l \in Leads, Sold!AddLead(l)
      PROVE  CrmInv'
  <2>1. /\ leads' = [leads EXCEPT ![l] = "open"] /\ leads[l] = None
        /\ UNCHANGED <<deals, quotes, orders, advances, reqs, conversions, raced>>
    BY <1>1 DEF Sold!AddLead
  <2>2. LeadsTyped'
    BY <1>a, <2>1 DEF LeadsTyped
  <2>3. LeadsConverted'
    BY <1>0, <1>a, <2>1, CrmFacts DEF LeadsConverted
  <2> QED
    BY <1>a, <2>1, <2>2, <2>3, RegistryKept
<1>2. ASSUME NEW l \in Leads, NEW c \in Codes, Sold!ConvertLead(l, c)
      PROVE  CrmInv'
  <2>1. /\ leads[l] = "open" /\ leads' = [leads EXCEPT ![l] = "converted"]
        /\ deals' = [deals EXCEPT ![<<c, l>>] = l]
        /\ conversions' = [conversions EXCEPT ![l] = @ \cup {<<c, l>>}]
        /\ UNCHANGED <<quotes, orders, advances, reqs, raced>> /\ <<c, l>> \in Sold!DealIds
    BY <1>2 DEF Sold!ConvertLead, Sold!DealIds
  <2>2. LeadsTyped'
    BY <1>a, <2>1 DEF LeadsTyped
  <2>3. conversions[l] = {}
    BY <1>0, <2>1 DEF LeadsConverted
  <2>4. conversions' \in [Leads -> SUBSET Sold!DealIds] /\ conversions'[l] = {<<c, l>>}
    BY <1>a, <2>1, <2>3
  <2>5. LeadsConverted'
    <3> SUFFICES ASSUME NEW m \in Leads
                 PROVE  (IF leads[m] = "converted" THEN \E d \in Sold!DealIds : conversions[m] = {d}
                                                   ELSE conversions[m] = {})'
      BY DEF LeadsConverted
    <3>1. CASE m = l
      BY <1>a, <2>1, <2>4, <3>1
    <3>2. CASE m # l
      <4>1. leads'[m] = leads[m] /\ conversions'[m] = conversions[m]
        BY <1>a, <2>1, <3>2
      <4> QED
        BY <1>0, <4>1 DEF LeadsConverted
    <3> QED
      BY <3>1, <3>2
  <2> QED
    BY <1>a, <2>1, <2>2, <2>4, <2>5, RegistryKept
<1>3. ASSUME NEW d \in HandIds, NEW l \in Leads \cup {NoLead}, Sold!AddDeal(d, l)
      PROVE  CrmInv'
  <2>1. /\ deals' = [deals EXCEPT ![d] = l] /\ d \in Sold!DealIds
        /\ UNCHANGED <<leads, quotes, orders, advances, reqs, conversions, raced>>
    BY <1>3 DEF Sold!AddDeal, Sold!DealIds
  <2>2. LeadsTyped'
    BY <1>a, <2>1 DEF LeadsTyped
  <2>3. LeadsConverted'
    BY <1>0, <2>1 DEF LeadsConverted
  <2> QED
    BY <1>a, <2>1, <2>2, <2>3, RegistryKept
<1>4. ASSUME NEW q \in Quotes, NEW d \in Sold!DealIds,
             quotes[q] = None /\ quotes' = [quotes EXCEPT ![q] = d],
             UNCHANGED <<leads, deals, orders, advances, reqs, conversions, raced>>
      PROVE  CrmInv'
  <2>1. LeadsTyped' /\ LeadsConverted'
    BY <1>0, <1>4 DEF LeadsTyped, LeadsConverted
  <2>2. /\ quotes' \in [Quotes -> Sold!DealIds \cup {None, Gone}]
        /\ \A p \in Quotes : quotes[p] # None => quotes'[p] = quotes[p]
    BY <1>a, <1>4
  <2>3. \A o \in Sold!LiveOrders : quotes[orders[o].quote] # None /\ orders[o].quote \in Quotes
    <3>1. Sold!OrdersDistinct
      BY CrmParts
    <3> QED
      BY <1>0, <3>1, LiveRows, CrmFacts DEF Sold!OrdersDistinct
  <2> QED
    BY <1>a, <1>4, <2>1, <2>2, <2>3, RegistryKept
<1>5. ASSUME NEW q \in Quotes, Sold!DeleteQuotation(q)
      PROVE  CrmInv'
  <2>0. /\ quotes' = [quotes EXCEPT ![q] = Gone] /\ \A o \in Sold!LiveOrders : orders[o].quote # q
        /\ UNCHANGED <<leads, deals, orders, advances, reqs, conversions, raced>>
    BY <1>5 DEF Sold!DeleteQuotation
  <2>1. LeadsTyped' /\ LeadsConverted'
    BY <1>0, <2>0 DEF LeadsTyped, LeadsConverted
  <2>2. /\ quotes' \in [Quotes -> Sold!DealIds \cup {None, Gone}]
        /\ \A p \in Quotes : quotes'[p] = quotes[p] \/ (p = q /\ quotes'[p] = Gone)
    BY <1>a, <2>0
  <2>3. \A o \in Sold!LiveOrders : orders[o].quote \in Quotes
    BY <1>0, LiveRows
  <2> QED
    BY <1>a, <2>0, <2>1, <2>2, <2>3, RegistryKept
<1> QED
  BY <1>1, <1>2, <1>3, <1>4, <1>5 DEF Sold!AddQuotation, Sold!ImportQuotation

Fit(q) ==
  /\ quotes[q.row.quote] \in {q.row.deal, Gone}
  /\ q.kind = "place" => q.order = None /\ q.step = 1 /\ q.row.balance = OrderTotal
  /\ q.kind # "place" => q.order \in Orders
  /\ q.kind = "edit" => q.step = 1
  /\ q.kind = "pay" => q.old = 0
  /\ q.kind \in {"pay", "repay"} => q.new \in Amounts
  /\ q.kind \in {"repay", "unpay"} =>
       /\ q.advance \in Advances /\ q.old \in Amounts
       /\ advances[q.advance] # None
       /\ Sold!IsRow(advances[q.advance]) => advances[q.advance].order = q.order

LEMMA RequestFacts ==
  ASSUME CrmAssumption, Tables, RequestsFit, NEW r \in Requests, reqs[r] # None
  PROVE  /\ reqs[r] \in Sold!RequestRows /\ Fit(reqs[r])
         /\ reqs[r].row \in Sold!OrderRows /\ reqs[r].row.quote \in Quotes
         /\ reqs[r].row.deal \in Sold!DealIds /\ reqs[r].row.balance \in Sold!Balances
         /\ reqs[r].kind \in {"place", "edit", "pay", "repay", "unpay"} /\ reqs[r].step \in {1, 2}
         /\ reqs[r].order \in Orders \cup {None} /\ reqs[r].old \in Nat /\ reqs[r].new \in Nat
<1>1. PICK q \in Sold!RequestRows : q = reqs[r]
  BY DEF Tables
<1>2. /\ q.row \in Sold!OrderRows /\ q.kind \in {"place", "edit", "pay", "repay", "unpay"}
      /\ q.step \in {1, 2} /\ q.order \in Orders \cup {None} /\ q.old \in Nat /\ q.new \in Nat
  BY DEF Sold!RequestRows
<1>3. q.row.quote \in Quotes /\ q.row.deal \in Sold!DealIds /\ q.row.balance \in Sold!Balances
  BY <1>2 DEF Sold!OrderRows
<1>4. Fit(reqs[r])
  BY DEF RequestsFit, Fit
<1> QED
  BY <1>1, <1>2, <1>3, <1>4

LEMMA FitJoined ==
  ASSUME PaymentsAgreed', \A r \in Requests : reqs'[r] # None => Fit(reqs[r])'
  PROVE  RequestsFit'
BY DEF RequestsFit, Fit, Sold!IsRow

LEMMA AgreedKept ==
  ASSUME RequestsFit,
         \A r \in Requests : OnPayment(r, reqs[r].advance)' =>
           /\ reqs[r] # None /\ reqs'[r].kind = reqs[r].kind
           /\ reqs'[r].advance = reqs[r].advance /\ reqs'[r].order = reqs[r].order
  PROVE  PaymentsAgreed'
BY DEF RequestsFit, PaymentsAgreed, OnPayment

LEMMA FitKept ==
  ASSUME RequestsFit, NEW r \in Requests, reqs[r] # None, reqs'[r] = reqs[r], quotes' = quotes,
         \A a \in Advances : /\ advances[a] # None => advances'[a] # None
                             /\ Sold!IsRow(advances[a]) /\ Sold!IsRow(advances'[a]) =>
                                  advances'[a].order = advances[a].order
                             /\ advances[a] = Gone /\ OnPayment(r, a) =>
                                  ~Sold!IsRow(advances'[a]) \/ advances'[a].order = reqs[r].order
  PROVE  Fit(reqs[r])'
<1>1. Fit(reqs[r])
  BY DEF RequestsFit, Fit
<1> QED
  BY <1>1 DEF Fit, Sold!IsRow, OnPayment

LEMMA FineBegun ==
  ASSUME CrmAssumption, Tables, NEW o \in Orders, OrderFine(o), NEW r \in Requests, NEW q,
         reqs[r] = None, reqs' = [reqs EXCEPT ![r] = q], q # None, ~Sold!Busy(o),
           o \in Sold!LiveOrders,
         q.order = o, q.step = 1, q.row = orders[o], UNCHANGED <<orders, advances>>,
         q.kind \in {"repay", "unpay"} => advances[q.advance] = [order |-> o, amount |-> q.old]
  PROVE  OrderFine(o)'
<1>1. \A s \in Requests : AtOrder(s, o)' <=> s = r
  BY DEF AtOrder, Sold!Busy, Tables
<1>2. Sold!AdvancesOf(o)' = Sold!AdvancesOf(o)
  BY DEF Sold!AdvancesOf, Sold!IsRow
<1>3. Sold!Paid(o)' = Sold!Paid(o)
  BY <1>2, PaidSame
<1>4. o \in Sold!LiveOrders' /\ reqs'[r] = q
  BY DEF Sold!LiveOrders, Sold!IsRow, Tables
<1>5. orders[o].balance = OrderTotal - Sold!Paid(o)
  BY DEF OrderFine, BalanceRight
<1>6. Told(reqs[r])'
  BY <1>3, <1>4, <1>5 DEF Told
<1>7. InTurn(o)'
  BY <1>1, <1>4, <1>6 DEF InTurn
<1>8. BalanceRight(o)'
  BY <1>1 DEF BalanceRight, Sold!Busy, AtOrder
<1> QED
  BY <1>7, <1>8 DEF OrderFine

LEMMA PaidUnchanged ==
  ASSUME NEW o, advances' = advances
  PROVE  Sold!Paid(o)' = Sold!Paid(o)
<1>1. Sold!AdvancesOf(o)' = Sold!AdvancesOf(o)
  BY DEF Sold!AdvancesOf, Sold!IsRow
<1> QED
  BY <1>1, PaidSame

LEMMA RequestBegins ==
  ASSUME CrmAssumption, CrmInv, NEW r \in Requests, NEW o \in Sold!LiveOrders,
         NEW q \in Sold!RequestRows,
         Sold!Begin(r, q, o), q.order = o, q.step = 1, q.row = orders[o], q.kind # "place",
         q.kind = "pay" => q.old = 0, q.kind \in {"pay", "repay"} => q.new \in Amounts,
         q.kind \in {"repay", "unpay"} =>
           /\ q.advance \in Advances /\ q.old \in Amounts /\ Sold!IsRow(advances[q.advance])
           /\ advances[q.advance] = [order |-> o, amount |-> q.old],
         UNCHANGED <<leads, deals, quotes, orders, advances, conversions>>
  PROVE  CrmInv'
<1>0. /\ Tables /\ LeadsTyped /\ LeadsConverted /\ Sold!OrdersDistinct
         /\ RequestsFit /\ PaymentsOwned
      /\ \A p \in Orders \ raced : OrderFine(p)
  BY CrmParts
<1>1. /\ reqs[r] = None /\ reqs' = [reqs EXCEPT ![r] = q]
      /\ raced' = IF Sold!Busy(o) THEN raced \cup {o} ELSE raced
  BY DEF Sold!Begin
<1>2. o \in Orders /\ q # None /\ reqs'[r] = q /\ \A s \in Requests \ {r} : reqs'[s] = reqs[s]
  BY <1>0, <1>1, LiveRows, CrmFacts DEF Tables
<1>3. Tables'
  <2>1. reqs' \in [Requests -> Sold!RequestRows \cup {None}]
    BY <1>0, <1>1 DEF Tables
  <2> QED
    BY <1>0, <2>1 DEF Tables
<1>4. LeadsTyped' /\ LeadsConverted'
  BY <1>0, <1>1, <1>2 DEF LeadsTyped, LeadsConverted
<1>5. Sold!OrdersDistinct'
  BY <1>0, OrdersStayDistinct DEF Sold!LiveOrders, Sold!IsRow
<1>6. PaymentsOwned'
  BY <1>0 DEF PaymentsOwned, Sold!LiveOrders, Sold!IsRow
<1>7. RequestsFit'
  <2>1. ASSUME NEW s \in Requests, s # r, reqs'[s] # None
        PROVE  Fit(reqs[s])'
    BY <1>0, <1>2, <2>1, FitKept DEF Sold!IsRow
  <2>2. Fit(reqs[r])'
    <3>1. quotes[orders[o].quote] = orders[o].deal
      BY <1>0 DEF Sold!OrdersDistinct
    <3>2. q.kind \in {"repay", "unpay"} =>
            /\ advances[q.advance] # None /\ advances[q.advance].order = o
      <4> SUFFICES ASSUME q.kind \in {"repay", "unpay"}
                   PROVE  advances[q.advance] # None /\ advances[q.advance].order = o
        OBVIOUS
      <4>1. advances[q.advance].order = o
        OBVIOUS
      <4>2. Sold!IsRow(advances[q.advance])
        OBVIOUS
      <4> QED
        BY <4>1, <4>2 DEF Sold!IsRow
    <3> QED
      BY <1>2, <3>1, <3>2 DEF Fit
  <2>3. PaymentsAgreed'
    <3>1. ASSUME NEW s \in Requests, NEW a \in Advances, s # r, OnPayment(s, a)',
                 OnPayment(r, a)'
          PROVE  reqs'[s].order = reqs'[r].order
      <4>1. OnPayment(s, a) /\ reqs'[s] = reqs[s] /\ q.advance = a
        BY <1>2, <3>1 DEF OnPayment
      <4>2. advances[a].order = o /\ Sold!IsRow(advances[a])
        BY <1>2, <3>1, <4>1 DEF OnPayment
      <4>3. reqs[s].order = o
        BY <1>0, <4>1, <4>2 DEF RequestsFit, OnPayment
      <4> QED
        BY <1>2, <4>1, <4>3
    <3>2. ASSUME NEW s \in Requests, NEW p \in Requests, NEW a \in Advances, s # r,
                 p # r,
                 OnPayment(s, a)', OnPayment(p, a)'
          PROVE  reqs'[s].order = reqs'[p].order
      <4>1. OnPayment(s, a) /\ OnPayment(p, a) /\ reqs'[s] = reqs[s] /\ reqs'[p] = reqs[p]
        BY <1>2, <3>2 DEF OnPayment
      <4> QED
        BY <1>0, <4>1 DEF RequestsFit, PaymentsAgreed
    <3> QED
      BY <3>1, <3>2 DEF PaymentsAgreed
  <2> QED
    BY <2>1, <2>2, <2>3, FitJoined
<1>8. ASSUME NEW p \in Orders \ raced'
      PROVE  OrderFine(p)'
  <2>0. p \in Orders \ raced /\ OrderFine(p)
    BY <1>0, <1>1, <1>8
  <2>1. ASSUME p # o
        PROVE  OrderFine(p)'
    <3>1. Sold!Paid(p)' = Sold!Paid(p)
      BY PaidUnchanged
    <3>2. \A s \in Requests : reqs'[s] = reqs[s] \/ (~AtOrder(s, p) /\ ~AtOrder(s, p)')
      BY <1>1, <1>2, <2>1 DEF AtOrder
    <3> QED
      BY <2>0, <3>1, <3>2, FineKept
  <2>2. ASSUME p = o
        PROVE  OrderFine(o)'
    <3>1. ~Sold!Busy(o)
      BY <1>1, <1>8, <2>2
    <3> QED
      BY <1>0, <1>1, <1>2, <2>0, <2>2, <3>1, FineBegun
  <2> QED
    BY <2>1, <2>2
<1> QED
  BY <1>3, <1>4, <1>5, <1>6, <1>7, <1>8, CrmJoined

LEMMA ReadsLastNumber ==
  ASSUME CrmAssumption, CrmInv, NEW r \in Requests, NEW d \in Sold!DealIds, NEW q \in Quotes,
         Sold!ReadLastNumber(r, d, q)
  PROVE  CrmInv'
<1>0. /\ Tables /\ LeadsTyped /\ LeadsConverted /\ Sold!OrdersDistinct
         /\ RequestsFit /\ PaymentsOwned
      /\ \A p \in Orders \ raced : OrderFine(p)
  BY CrmParts
<1> DEFINE row == [number |-> Sold!LastNumber + 1, deal |-> d, quote |-> q, balance |-> OrderTotal]
<1>1. /\ reqs[r] = None /\ quotes[q] = d
      /\ reqs' = [reqs EXCEPT ![r] = Sold!Request("place", 1, None, row)]
      /\ UNCHANGED <<leads, deals, quotes, orders, advances, conversions, raced>>
  BY DEF Sold!ReadLastNumber
<1>2. row \in Sold!OrderRows
  BY <1>0, NumberedOn, CrmFacts DEF Sold!OrderRows
<1> HIDE DEF row
<1>3. PICK new : new = Sold!Request("place", 1, None, row)
  OBVIOUS
<1>4. /\ new \in Sold!RequestRows /\ new.kind = "place" /\ new.order = None /\ new.step = 1
      /\ new.row = row
  BY <1>2, <1>3 DEF Sold!Request, Sold!RequestRows
<1>5. row.quote = q /\ row.deal = d /\ row.balance = OrderTotal
  BY DEF row
<1>6. reqs'[r] = new /\ \A s \in Requests \ {r} : reqs'[s] = reqs[s]
  BY <1>0, <1>1, <1>3 DEF Tables
<1>7. Tables'
  <2>1. reqs' \in [Requests -> Sold!RequestRows \cup {None}]
    BY <1>0, <1>1, <1>3, <1>4 DEF Tables
  <2> QED
    BY <1>0, <1>1, <2>1 DEF Tables
<1>8. LeadsTyped' /\ LeadsConverted'
  BY <1>0, <1>1 DEF LeadsTyped, LeadsConverted
<1>9. Sold!OrdersDistinct'
  BY <1>0, <1>1, OrdersStayDistinct DEF Sold!LiveOrders, Sold!IsRow
<1>10. PaymentsOwned'
  BY <1>0, <1>1 DEF PaymentsOwned, Sold!LiveOrders, Sold!IsRow
<1>11. RequestsFit'
  <2>1. ASSUME NEW s \in Requests, s # r, reqs'[s] # None
        PROVE  Fit(reqs[s])'
    BY <1>0, <1>1, <1>6, <2>1, FitKept DEF Sold!IsRow
  <2>2. Fit(reqs[r])'
    BY <1>1, <1>4, <1>5, <1>6 DEF Fit
  <2>3. PaymentsAgreed'
    BY <1>0, <1>4, <1>6, AgreedKept DEF OnPayment
  <2> QED
    BY <2>1, <2>2, <2>3, FitJoined
<1>12. ASSUME NEW p \in Orders \ raced'
       PROVE  OrderFine(p)'
  <2>1. Sold!Paid(p)' = Sold!Paid(p)
    BY <1>1, PaidUnchanged
  <2>2. p # None
    BY CrmFacts
  <2>3. \A s \in Requests : reqs'[s] = reqs[s] \/ (~AtOrder(s, p) /\ ~AtOrder(s, p)')
    BY <1>1, <1>4, <1>6, <2>2 DEF AtOrder
  <2> QED
    BY <1>0, <1>1, <2>1, <2>3, FineKept
<1> QED
  BY <1>7, <1>8, <1>9, <1>10, <1>11, <1>12, CrmJoined

(* What all steps of a request that ends keep. *)
LEMMA RequestEnds ==
  ASSUME CrmAssumption, CrmInv, NEW r \in Requests, reqs[r] # None,
         reqs' = [reqs EXCEPT ![r] = None],
         UNCHANGED <<leads, deals, quotes, advances, conversions>>,
         raced \subseteq raced', raced' \subseteq Orders,
         orders' \in [Orders -> Sold!OrderRows \cup {None, Gone}],
         Sold!LiveOrders \subseteq Sold!LiveOrders', Sold!OrdersDistinct',
         \A o \in Orders \ raced' :
            \/ orders'[o] = orders[o] /\ ~AtOrder(r, o)
            \/ OrderFine(o)'
  PROVE  CrmInv'
<1>0. /\ Tables /\ LeadsTyped /\ LeadsConverted /\ RequestsFit /\ PaymentsOwned
      /\ \A p \in Orders \ raced : OrderFine(p)
  BY CrmParts
<1>1. reqs'[r] = None /\ \A s \in Requests \ {r} : reqs'[s] = reqs[s]
  BY <1>0 DEF Tables
<1>2. Tables'
  BY <1>0 DEF Tables
<1>3. LeadsTyped' /\ LeadsConverted'
  BY <1>0 DEF LeadsTyped, LeadsConverted
<1>4. PaymentsOwned'
  BY <1>0 DEF PaymentsOwned, Sold!IsRow
<1>5. RequestsFit'
  <2>1. ASSUME NEW s \in Requests, reqs'[s] # None
        PROVE  Fit(reqs[s])'
    BY <1>0, <1>1, <2>1, FitKept DEF Sold!IsRow
  <2>2. PaymentsAgreed'
    BY <1>0, <1>1, AgreedKept DEF OnPayment
  <2> QED
    BY <2>1, <2>2, FitJoined
<1>6. ASSUME NEW o \in Orders \ raced', orders'[o] = orders[o], ~AtOrder(r, o)
      PROVE  OrderFine(o)'
  <2>1. Sold!Paid(o)' = Sold!Paid(o)
    BY PaidUnchanged
  <2>2. \A s \in Requests : reqs'[s] = reqs[s] \/ (~AtOrder(s, o) /\ ~AtOrder(s, o)')
    BY <1>1, <1>6 DEF AtOrder
  <2> QED
    BY <1>0, <1>6, <2>1, <2>2, FineKept
<1> QED
  BY <1>2, <1>3, <1>4, <1>5, <1>6, CrmJoined

LEMMA OrderPlaced ==
  ASSUME CrmAssumption, CrmInv, NEW r \in Requests, NEW o \in Orders, Sold!PlaceOrder(r, o)
  PROVE  CrmInv'
<1>0. /\ Tables /\ LeadsTyped /\ Sold!OrdersDistinct /\ RequestsFit /\ PaymentsOwned
      /\ \A p \in Orders \ raced : OrderFine(p)
  BY CrmParts
<1>1. /\ reqs[r] # None /\ reqs[r].kind = "place" /\ orders[o] = None
      /\ reqs' = [reqs EXCEPT ![r] = None]
      /\ UNCHANGED <<leads, deals, quotes, advances, conversions, raced>>
  BY DEF Sold!PlaceOrder, Sold!Finish
<1>2. PICK row \in Sold!OrderRows : row = reqs[r].row
  BY <1>0, <1>1, RequestFacts
<1>3. /\ Fit(reqs[r]) /\ row.balance = OrderTotal /\ quotes[row.quote] \in {row.deal, Gone}
      /\ reqs[r].order = None
  BY <1>0, <1>1, <1>2, RequestFacts DEF Fit
<1>4. \A p \in Orders : ~AtOrder(r, p)
  BY <1>3, CrmFacts DEF AtOrder
<1>5. raced \subseteq Orders /\ raced' = raced
  BY <1>0, <1>1 DEF LeadsTyped
<1>6. ASSUME Sold!Insertable(o, row), orders' = [orders EXCEPT ![o] = row]
      PROVE  CrmInv'
  <2>1. Sold!OrdersDistinct'
    BY <1>0, <1>1, <1>3, <1>6, OneInserted
  <2>2. /\ orders'[o] = row /\ \A p \in Orders \ {o} : orders'[p] = orders[p]
        /\ orders' \in [Orders -> Sold!OrderRows \cup {None, Gone}]
        /\ Sold!LiveOrders \subseteq Sold!LiveOrders'
    BY <1>0, <1>1, <1>6, CrmFacts DEF Tables, Sold!LiveOrders, Sold!IsRow
  <2>3. OrderFine(o)' \/ o \in raced
    <3> SUFFICES ASSUME o \notin raced
                 PROVE  OrderFine(o)'
      OBVIOUS
    <3>1. o \notin Sold!LiveOrders
      BY <1>1 DEF Sold!LiveOrders, Sold!IsRow
    <3>2. \A s \in Requests : ~AtOrder(s, o)
      BY <1>0, <3>1 DEF OrderFine, InTurn
    <3>3. \A s \in Requests : ~AtOrder(s, o)'
      BY <1>0, <1>1, <3>2 DEF AtOrder, Tables
    <3>4. Sold!AdvancesOf(o) = {}
      BY <1>0, <3>1 DEF Sold!AdvancesOf, PaymentsOwned
    <3>5. Sold!Paid(o)' = 0
      BY <1>1, <3>4, PaidNothing, PaidUnchanged
    <3>6. orders'[o].balance = OrderTotal - Sold!Paid(o)'
      BY <1>3, <2>2, <3>5, CrmFacts DEF Sold!Balances
    <3> QED
      BY <3>3, <3>6 DEF OrderFine, InTurn, BalanceRight
  <2> QED
    BY <1>1, <1>4, <1>5, <2>1, <2>2, <2>3, RequestEnds
<1>7. ASSUME orders' = orders
      PROVE  CrmInv'
  <2>1. Sold!OrdersDistinct' /\ Sold!LiveOrders' = Sold!LiveOrders
    BY <1>0, <1>1, <1>7, OrdersStayDistinct DEF Sold!LiveOrders, Sold!IsRow
  <2>2. orders' \in [Orders -> Sold!OrderRows \cup {None, Gone}]
    BY <1>0, <1>7 DEF Tables
  <2> QED
    BY <1>1, <1>4, <1>5, <1>7, <2>1, <2>2, RequestEnds
<1> QED
  BY <1>2, <1>6, <1>7 DEF Sold!PlaceOrder

LEMMA OrderSaved ==
  ASSUME CrmAssumption, CrmInv, NEW r \in Requests, Sold!SaveOrder(r)
  PROVE  CrmInv'
<1>0. /\ Tables /\ LeadsTyped /\ Sold!OrdersDistinct /\ RequestsFit /\ PaymentsOwned
      /\ \A p \in Orders \ raced : OrderFine(p)
  BY CrmParts
<1>1. /\ reqs[r] # None /\ reqs[r].kind = "edit"
      /\ reqs' = [reqs EXCEPT ![r] = None]
      /\ UNCHANGED <<leads, deals, quotes, advances, conversions, raced>>
  BY DEF Sold!SaveOrder, Sold!Finish
<1>2. PICK row \in Sold!OrderRows : row = reqs[r].row
  BY <1>0, <1>1, RequestFacts
<1>2a. Fit(reqs[r]) /\ reqs[r].order \in Orders
  BY <1>0, <1>1, RequestFacts DEF Fit
<1>2b. PICK o \in Orders : o = reqs[r].order
  BY <1>2a
<1>3. quotes[row.quote] \in {row.deal, Gone} /\ reqs[r].step = 1
  BY <1>0, <1>1, <1>2, RequestFacts DEF Fit
<1>4. AtOrder(r, o) /\ \A p \in Orders \ {o} : ~AtOrder(r, p)
  BY <1>1, <1>2b DEF AtOrder
<1>5. raced \subseteq Orders /\ raced' = raced
  BY <1>0, <1>1 DEF LeadsTyped
<1>6. ASSUME o \notin raced
      PROVE  OrderFine(o) /\ row = orders[o] /\ row.balance = OrderTotal - Sold!Paid(o)'
  <2>1. OrderFine(o) /\ Told(reqs[r])
    BY <1>0, <1>4, <1>6 DEF OrderFine, InTurn
  <2>2. row = orders[o] /\ row.balance = OrderTotal - Sold!Paid(o)
    BY <1>2, <1>2b, <1>3, <2>1 DEF Told
  <2> QED
    BY <1>1, <2>1, <2>2, PaidUnchanged
<1>7. ASSUME Sold!Insertable(o, row), orders' = [orders EXCEPT ![o] = row]
      PROVE  CrmInv'
  <2>1. Sold!OrdersDistinct'
    BY <1>0, <1>1, <1>3, <1>7, OneInserted
  <2>2. /\ orders'[o] = row /\ \A p \in Orders \ {o} : orders'[p] = orders[p]
        /\ orders' \in [Orders -> Sold!OrderRows \cup {None, Gone}]
        /\ Sold!LiveOrders \subseteq Sold!LiveOrders'
    BY <1>0, <1>1, <1>7, CrmFacts DEF Tables, Sold!LiveOrders, Sold!IsRow
  <2>3. OrderFine(o)' \/ o \in raced
    BY <1>0, <1>1, <1>4, <1>6, <2>2, FineEnded
  <2> QED
    BY <1>1, <1>4, <1>5, <2>1, <2>2, <2>3, RequestEnds
<1>8. ASSUME orders' = orders
      PROVE  CrmInv'
  <2>1. Sold!OrdersDistinct' /\ Sold!LiveOrders' = Sold!LiveOrders
    BY <1>0, <1>1, <1>8, OrdersStayDistinct DEF Sold!LiveOrders, Sold!IsRow
  <2>2. orders' \in [Orders -> Sold!OrderRows \cup {None, Gone}]
    BY <1>0, <1>8 DEF Tables
  <2>3. OrderFine(o)' \/ o \in raced
    BY <1>0, <1>1, <1>4, <1>6, <1>8, FineEnded
  <2> QED
    BY <1>1, <1>4, <1>5, <1>8, <2>1, <2>2, <2>3, RequestEnds
<1> QED
  BY <1>2, <1>2b, <1>7, <1>8 DEF Sold!SaveOrder

LEMMA RequestDies ==
  ASSUME CrmAssumption, CrmInv, NEW r \in Requests, Sold!Die(r)
  PROVE  CrmInv'
<1>0. /\ Tables /\ LeadsTyped /\ Sold!OrdersDistinct /\ RequestsFit
      /\ \A p \in Orders \ raced : OrderFine(p)
  BY CrmParts
<1>1. /\ reqs[r] # None /\ reqs' = [reqs EXCEPT ![r] = None]
      /\ raced' = IF reqs[r].step = 2 THEN raced \cup {reqs[r].order} ELSE raced
      /\ UNCHANGED <<leads, deals, quotes, orders, advances, conversions>>
  BY DEF Sold!Die, Sold!Finish
<1>2. /\ reqs[r].step \in {1, 2} /\ reqs[r].order \in Orders \cup {None}
      /\ reqs[r].kind = "place" => reqs[r].step = 1
      /\ reqs[r].kind # "place" => reqs[r].order \in Orders
      /\ reqs[r].step = 2 => reqs[r].order \in Orders
  BY <1>0, <1>1, RequestFacts DEF Fit
<1>3. raced \subseteq raced' /\ raced' \subseteq Orders
  BY <1>0, <1>1, <1>2 DEF LeadsTyped
<1>4. Sold!OrdersDistinct' /\ Sold!LiveOrders' = Sold!LiveOrders
  BY <1>0, <1>1, OrdersStayDistinct DEF Sold!LiveOrders, Sold!IsRow
<1>5. orders' \in [Orders -> Sold!OrderRows \cup {None, Gone}]
  BY <1>0, <1>1 DEF Tables
<1>6. ASSUME NEW o \in Orders \ raced', AtOrder(r, o)
      PROVE  OrderFine(o)'
  <2>1. o \notin raced /\ reqs[r].step = 1 /\ reqs[r].order = o
    BY <1>1, <1>2, <1>3, <1>6 DEF AtOrder
  <2>2. OrderFine(o) /\ Told(reqs[r])
    BY <1>0, <1>6, <2>1 DEF OrderFine, InTurn
  <2>3. orders[o].balance = OrderTotal - Sold!Paid(o)
    BY <2>1, <2>2 DEF Told
  <2>4. Sold!Paid(o)' = Sold!Paid(o)
    BY <1>1, PaidUnchanged
  <2> QED
    BY <1>0, <1>1, <1>6, <2>2, <2>3, <2>4, FineEnded
<1> QED
  BY <1>1, <1>3, <1>4, <1>5, <1>6, RequestEnds

LEMMA BalanceWritten ==
  ASSUME CrmAssumption, CrmInv, NEW r \in Requests, Sold!WriteBalance(r)
  PROVE  CrmInv'
<1>0. /\ Tables /\ LeadsTyped /\ Sold!OrdersDistinct /\ RequestsFit
      /\ \A p \in Orders \ raced : OrderFine(p)
  BY CrmParts
<1>1. /\ reqs[r] # None /\ reqs[r].step = 2 /\ reqs' = [reqs EXCEPT ![r] = None]
      /\ UNCHANGED <<leads, deals, quotes, advances, conversions, raced>>
  BY DEF Sold!WriteBalance, Sold!Finish
<1>2. reqs[r].order \in Orders
  BY <1>0, <1>1, RequestFacts DEF Fit
<1>3. PICK o \in Orders : o = reqs[r].order
  BY <1>2
<1>4. PICK b : b = reqs[r].row.balance + Sold!Change(reqs[r])
  OBVIOUS
<1>5. AtOrder(r, o) /\ \A p \in Orders \ {o} : ~AtOrder(r, p)
  BY <1>1, <1>3 DEF AtOrder
<1>6. raced \subseteq Orders /\ raced' = raced
  BY <1>0, <1>1 DEF LeadsTyped
<1>7. ASSUME o \notin raced
      PROVE  OrderFine(o) /\ b = OrderTotal - Sold!Paid(o)' /\ o \in Sold!LiveOrders
  <2>1. OrderFine(o) /\ Told(reqs[r]) /\ o \in Sold!LiveOrders
    BY <1>0, <1>5, <1>7 DEF OrderFine, InTurn
  <2>2. b = OrderTotal - Sold!Paid(o)
    BY <1>1, <1>3, <1>4, <2>1 DEF Told
  <2> QED
    BY <1>1, <2>1, <2>2, PaidUnchanged
<1>8. ASSUME o \in Sold!LiveOrders, b \in Sold!Balances,
             orders' = [orders EXCEPT ![o].balance = b]
      PROVE  CrmInv'
  <2>1. PICK row \in Sold!OrderRows : row = orders[o]
    BY <1>0, <1>8, LiveRows
  <2>2. PICK new : new = [row EXCEPT !.balance = b]
    OBVIOUS
  <2>3. /\ new \in Sold!OrderRows /\ new.balance = b /\ new.number = row.number
        /\ new.deal = row.deal /\ new.quote = row.quote
    BY <1>8, <2>2 DEF Sold!OrderRows
  <2>4. orders' = [orders EXCEPT ![o] = new]
    BY <1>8, <2>1, <2>2
  <2>5. /\ orders'[o] = new /\ \A p \in Orders \ {o} : orders'[p] = orders[p]
        /\ orders' \in [Orders -> Sold!OrderRows \cup {None, Gone}]
    BY <1>0, <2>3, <2>4 DEF Tables
  <2>6. Sold!LiveOrders' = Sold!LiveOrders
    BY <1>8, <2>3, <2>5, CrmFacts DEF Sold!LiveOrders, Sold!IsRow
  <2>7. Sold!OrdersDistinct'
    <3>1. Sold!LiveOrders \subseteq Orders
      BY DEF Sold!LiveOrders
    <3> QED
      BY <1>0, <1>1, <2>1, <2>3, <2>5, <2>6, <3>1, OrdersStayDistinct
  <2>8. OrderFine(o)' \/ o \in raced
    BY <1>0, <1>1, <1>5, <1>7, <2>3, <2>5, FineEnded
  <2> QED
    BY <1>1, <1>5, <1>6, <2>5, <2>6, <2>7, <2>8, RequestEnds
<1>9. ASSUME o \notin Sold!LiveOrders, orders' = orders
      PROVE  CrmInv'
  <2>1. Sold!OrdersDistinct' /\ Sold!LiveOrders' = Sold!LiveOrders
    BY <1>0, <1>1, <1>9, OrdersStayDistinct DEF Sold!LiveOrders, Sold!IsRow
  <2>2. orders' \in [Orders -> Sold!OrderRows \cup {None, Gone}]
    BY <1>0, <1>9 DEF Tables
  <2> QED
    BY <1>1, <1>5, <1>6, <1>7, <1>9, <2>1, <2>2, RequestEnds
<1> QED
  BY <1>3, <1>4, <1>8, <1>9 DEF Sold!WriteBalance

LEMMA OrderDeleted ==
  ASSUME CrmAssumption, CrmInv, NEW o \in Orders, Sold!DeleteOrder(o)
  PROVE  CrmInv'
<1>0. /\ Tables /\ LeadsTyped /\ LeadsConverted /\ Sold!OrdersDistinct
         /\ RequestsFit /\ PaymentsOwned
      /\ \A p \in Orders \ raced : OrderFine(p)
  BY CrmParts
<1>1. /\ o \in Sold!LiveOrders /\ orders' = [orders EXCEPT ![o] = Gone]
      /\ advances' = [a \in Advances |-> IF a \in Sold!AdvancesOf(o) THEN Gone ELSE advances[a]]
      /\ raced' = IF Sold!Busy(o) THEN raced \cup {o} ELSE raced
      /\ UNCHANGED <<leads, deals, quotes, reqs, conversions>>
  BY DEF Sold!DeleteOrder
<1>2. /\ orders'[o] = Gone /\ \A p \in Orders \ {o} : orders'[p] = orders[p]
      /\ Sold!LiveOrders' = Sold!LiveOrders \ {o}
  BY <1>0, <1>1 DEF Tables, Sold!LiveOrders, Sold!IsRow
<1>3. /\ \A a \in Advances : advances'[a] = IF a \in Sold!AdvancesOf(o) THEN Gone ELSE advances[a]
      /\ advances' \in [Advances -> Sold!AdvanceRows \cup {None, Gone}]
  BY <1>0, <1>1 DEF Tables
<1>4. Tables'
  <2>1. orders' \in [Orders -> Sold!OrderRows \cup {None, Gone}]
    BY <1>0, <1>1 DEF Tables
  <2> QED
    BY <1>0, <1>1, <1>3, <2>1 DEF Tables
<1>5. LeadsTyped' /\ LeadsConverted'
  BY <1>0, <1>1 DEF LeadsTyped, LeadsConverted
<1>6. Sold!OrdersDistinct'
  <2>1. Sold!LiveOrders \subseteq Orders
    BY DEF Sold!LiveOrders
  <2> QED
    BY <1>0, <1>1, <1>2, <2>1, OrdersStayDistinct
<1>7. PaymentsOwned'
  BY <1>0, <1>2, <1>3 DEF PaymentsOwned, Sold!AdvancesOf, Sold!IsRow
<1>8. RequestsFit'
  <2>1. \A a \in Advances : /\ advances[a] # None => advances'[a] # None
                            /\ Sold!IsRow(advances[a]) /\ Sold!IsRow(advances'[a]) =>
                                 advances'[a].order = advances[a].order
                            /\ advances[a] = Gone => ~Sold!IsRow(advances'[a])
    BY <1>3, CrmFacts DEF Sold!AdvancesOf, Sold!IsRow
  <2>2. ASSUME NEW s \in Requests, reqs'[s] # None
        PROVE  Fit(reqs[s])'
    BY <1>0, <1>1, <2>1, <2>2, FitKept
  <2>3. PaymentsAgreed'
    BY <1>0, <1>1, AgreedKept DEF OnPayment
  <2> QED
    BY <2>2, <2>3, FitJoined
<1>9. ASSUME NEW p \in Orders \ raced'
      PROVE  OrderFine(p)'
  <2>0. p \in Orders \ raced
    BY <1>1, <1>9
  <2>1. ASSUME p = o
        PROVE  OrderFine(p)'
    <3>1. ~Sold!Busy(o)
      BY <1>1, <1>9, <2>1
    <3>2. \A s \in Requests : ~AtOrder(s, o)'
      BY <1>1, <3>1 DEF Sold!Busy, AtOrder
    <3>3. o \notin Sold!LiveOrders'
      BY <1>2
    <3> QED
      BY <2>1, <3>2, <3>3 DEF OrderFine, InTurn, BalanceRight
  <2>2. ASSUME p # o
        PROVE  OrderFine(p)'
    <3>1. Sold!AdvancesOf(p)' = Sold!AdvancesOf(p)
      BY <1>3, <2>2 DEF Sold!AdvancesOf, Sold!IsRow
    <3>2. \A a \in Sold!AdvancesOf(p) : advances'[a] = advances[a]
      BY <1>3, <2>2 DEF Sold!AdvancesOf
    <3>3. Sold!Paid(p)' = Sold!Paid(p)
      BY <3>1, <3>2, PaidSame
    <3>4. ASSUME NEW s \in Requests, AtOrder(s, p), reqs[s].step = 1,
                 reqs[s].kind \in {"repay", "unpay"}
          PROVE  advances'[reqs[s].advance] = advances[reqs[s].advance]
      <4>1. Told(reqs[s]) /\ reqs[s].order = p /\ reqs[s] # None
        BY <1>0, <2>0, <3>4 DEF OrderFine, InTurn, AtOrder
      <4>2. PICK a \in Advances : a = reqs[s].advance
        BY <1>0, <3>4, <4>1, RequestFacts DEF Fit
      <4>3. advances[a].order = p
        BY <3>4, <4>1, <4>2 DEF Told
      <4>4. a \notin Sold!AdvancesOf(o)
        BY <2>2, <4>3 DEF Sold!AdvancesOf
      <4> QED
        BY <1>3, <4>2, <4>4
    <3> QED
      BY <1>0, <1>1, <1>2, <2>0, <2>2, <3>3, <3>4, FineKept
  <2> QED
    BY <2>1, <2>2
<1> QED
  BY <1>4, <1>5, <1>6, <1>7, <1>8, <1>9, CrmJoined

LEMMA RequestReads ==
  ASSUME CrmAssumption, CrmInv, NEW r \in Requests,
         \/ \E o \in Orders : Sold!ReadOrder(r, o)
         \/ \E o \in Orders, n \in Amounts : Sold!ReadForPayment(r, o, n)
         \/ \E a \in Advances, n \in Amounts : Sold!ReadAdvance(r, a, "repay", n)
         \/ \E a \in Advances : Sold!ReadAdvance(r, a, "unpay", 0)
  PROVE  CrmInv'
<1>0. /\ Tables /\ PaymentsOwned
  BY CrmParts
<1>1. ASSUME NEW o \in Orders, Sold!ReadOrder(r, o)
      PROVE  CrmInv'
  <2>1. PICK row \in Sold!OrderRows : row = orders[o] /\ o \in Sold!LiveOrders
    BY <1>0, <1>1, LiveRows DEF Sold!ReadOrder
  <2>2. PICK q : q = Sold!Request("edit", 1, o, row)
    OBVIOUS
  <2>3. q \in Sold!RequestRows /\ q.order = o /\ q.step = 1 /\ q.row = row /\ q.kind = "edit"
    BY <2>2 DEF Sold!Request, Sold!RequestRows
  <2>4. Sold!Begin(r, q, o) /\ UNCHANGED <<leads, deals, quotes, orders, advances, conversions>>
    BY <1>1, <2>1, <2>2 DEF Sold!ReadOrder
  <2> QED
    BY <2>1, <2>3, <2>4, RequestBegins
<1>2. ASSUME NEW o \in Orders, NEW n \in Amounts, Sold!ReadForPayment(r, o, n)
      PROVE  CrmInv'
  <2>1. PICK row \in Sold!OrderRows : row = orders[o] /\ o \in Sold!LiveOrders
    BY <1>0, <1>2, LiveRows DEF Sold!ReadForPayment
  <2>2. PICK q : q = [Sold!Request("pay", 1, o, row) EXCEPT !.new = n]
    OBVIOUS
  <2>3. /\ q \in Sold!RequestRows /\ q.order = o /\ q.step = 1 /\ q.row = row /\ q.kind = "pay"
        /\ q.old = 0 /\ q.new = n
    BY <2>2, CrmFacts DEF Sold!Request, Sold!RequestRows
  <2>4. Sold!Begin(r, q, o) /\ UNCHANGED <<leads, deals, quotes, orders, advances, conversions>>
    BY <1>2, <2>1, <2>2 DEF Sold!ReadForPayment
  <2> QED
    BY <2>1, <2>3, <2>4, RequestBegins
<1>3. ASSUME NEW a \in Advances, NEW kind \in {"repay", "unpay"}, NEW n \in Nat,
             kind = "repay" => n \in Amounts, Sold!ReadAdvance(r, a, kind, n)
      PROVE  CrmInv'
  <2>1. PICK adv \in Sold!AdvanceRows : adv = advances[a]
    BY <1>0, <1>3 DEF Sold!ReadAdvance, Tables, Sold!IsRow
  <2>2. Sold!IsRow(advances[a]) /\ adv.order \in Sold!LiveOrders /\ adv.amount \in Amounts
    BY <1>0, <1>3, <2>1, CrmFacts DEF Sold!ReadAdvance, PaymentsOwned, Sold!AdvanceRows
  <2>3. PICK o \in Sold!LiveOrders : o = adv.order
    BY <2>2
  <2>4. PICK row \in Sold!OrderRows : row = orders[o] /\ o \in Orders
    BY <1>0, LiveRows
  <2>5. PICK q : q = [Sold!Request(kind, 1, o, row) EXCEPT !.advance = a, !.old = adv.amount,
             !.new = n]
    OBVIOUS
  <2>6. /\ q \in Sold!RequestRows /\ q.order = o /\ q.step = 1 /\ q.row = row /\ q.kind = kind
        /\ q.advance = a /\ q.old = adv.amount /\ q.new = n
    BY <2>2, <2>4, <2>5, CrmFacts DEF Sold!Request, Sold!RequestRows
  <2>7. Sold!Begin(r, q, o) /\ UNCHANGED <<leads, deals, quotes, orders, advances, conversions>>
    BY <1>3, <2>1, <2>3, <2>4, <2>5 DEF Sold!ReadAdvance
  <2>8. advances[a] = [order |-> o, amount |-> adv.amount]
    BY <2>1, <2>3 DEF Sold!AdvanceRows
  <2> QED
    BY <1>3, <2>2, <2>3, <2>4, <2>6, <2>7, <2>8, RequestBegins
<1> QED
  BY <1>1, <1>2, <1>3, CrmFacts

(* The first statement of a request on a payment: only its order sees it. *)
LEMMA AdvanceWritten ==
  ASSUME CrmAssumption, CrmInv, NEW r \in Requests, NEW a \in Advances, NEW o \in Orders,
         NEW new \in Sold!RequestRows, reqs[r] # None, reqs[r].order = o, reqs[r].step = 1,
         reqs[r].kind \in {"pay", "repay", "unpay"},
         new.kind = reqs[r].kind, new.step = 2, new.order = o, new.row = reqs[r].row,
         new.advance = reqs[r].advance, new.old = reqs[r].old, new.new = reqs[r].new,
         reqs' = [reqs EXCEPT ![r] = new],
         UNCHANGED <<leads, deals, quotes, orders, conversions, raced>>,
         advances' \in [Advances -> Sold!AdvanceRows \cup {None, Gone}],
         \A b \in Advances \ {a} : advances'[b] = advances[b],
         advances'[a] # None, Sold!IsRow(advances'[a]) => advances'[a].order = o
           /\ o \in Sold!LiveOrders,
         IF reqs[r].kind = "pay" THEN advances[a] = None
         ELSE a = reqs[r].advance,
         \A p : p # o => Sold!Paid(p)' = Sold!Paid(p),
         o \notin raced =>
           Sold!Paid(o)' = Sold!Paid(o) - Sold!Change(reqs[r])
  PROVE  CrmInv'
<1>0. /\ Tables /\ LeadsTyped /\ LeadsConverted /\ Sold!OrdersDistinct
         /\ RequestsFit /\ PaymentsOwned
      /\ \A p \in Orders \ raced : OrderFine(p)
  BY CrmParts
<1>1. /\ reqs'[r] = new /\ \A s \in Requests \ {r} : reqs'[s] = reqs[s]
      /\ Sold!LiveOrders' = Sold!LiveOrders /\ o \in Orders /\ new # None
  BY <1>0, CrmFacts DEF Tables, Sold!LiveOrders, Sold!IsRow
<1>2. /\ new.kind = reqs[r].kind /\ new.step = 2 /\ new.order = o /\ new.row = reqs[r].row
      /\ new.advance = reqs[r].advance /\ new.old = reqs[r].old /\ new.new = reqs[r].new
  OBVIOUS
<1>3. Tables'
  <2>1. reqs' \in [Requests -> Sold!RequestRows \cup {None}]
    BY <1>0 DEF Tables
  <2> QED
    BY <1>0, <2>1 DEF Tables
<1>4. LeadsTyped' /\ LeadsConverted'
  BY <1>0 DEF LeadsTyped, LeadsConverted
<1>5. Sold!OrdersDistinct'
  BY <1>0, <1>1, OrdersStayDistinct DEF Sold!LiveOrders
<1>6. PaymentsOwned'
  BY <1>0, <1>1 DEF PaymentsOwned, Sold!IsRow
<1>7. Fit(reqs[r]) /\ \A s \in Requests : reqs[s] # None => Fit(reqs[s])
  BY <1>0, RequestFacts
<1>7a. Sold!IsRow(advances[a]) => advances[a].order = o
  BY <1>7 DEF Fit, Sold!IsRow
<1>8. RequestsFit'
  <2>1. ASSUME NEW s \in Requests, s # r, reqs'[s] # None
        PROVE  Fit(reqs[s])'
    <3>1. Fit(reqs[s]) /\ reqs'[s] = reqs[s] /\ reqs[s] # None
      BY <1>1, <1>7, <2>1
    <3>2. ASSUME reqs[s].kind \in {"repay", "unpay"}
          PROVE  /\ advances'[reqs[s].advance] # None
                 /\ Sold!IsRow(advances'[reqs[s].advance]) =>
                    advances'[reqs[s].advance].order = reqs[s].order
      <4>1. ASSUME reqs[s].advance = a
            PROVE  reqs[s].order = o
        <5>1. reqs[r].kind # "pay" /\ a = reqs[r].advance
          BY <3>1, <3>2, <4>1 DEF Fit
        <5>2. OnPayment(r, a) /\ OnPayment(s, a)
          BY <3>1, <3>2, <4>1, <5>1 DEF OnPayment
        <5> QED
          BY <1>0, <5>2 DEF RequestsFit, PaymentsAgreed
      <4>2. reqs[s].advance \in Advances
        BY <3>1, <3>2 DEF Fit
      <4>3. CASE reqs[s].advance = a
        BY <4>1, <4>3
      <4>4. CASE reqs[s].advance # a
        <5>1. advances'[reqs[s].advance] = advances[reqs[s].advance]
          BY <4>2, <4>4
        <5> QED
          BY <3>1, <3>2, <5>1 DEF Fit
      <4> QED
        BY <4>3, <4>4
    <3> QED
      BY <3>1, <3>2 DEF Fit, Sold!IsRow
  <2>2. Fit(reqs[r])'
    BY <1>1, <1>2, <1>7 DEF Fit, Sold!IsRow
  <2>3. PaymentsAgreed'
    BY <1>0, <1>1, <1>2, AgreedKept DEF OnPayment
  <2> QED
    BY <2>1, <2>2, <2>3, FitJoined
<1>9. ASSUME NEW p \in Orders \ raced'
      PROVE  OrderFine(p)'
  <2>0. p \in Orders \ raced /\ OrderFine(p)
    BY <1>0, <1>9
  <2>1. ASSUME p # o
        PROVE  OrderFine(p)'
    <3>1. Sold!Paid(p)' = Sold!Paid(p)
      BY <2>1
    <3>2. \A s \in Requests : reqs'[s] = reqs[s] \/ (~AtOrder(s, p) /\ ~AtOrder(s, p)')
      BY <1>1, <1>2, <2>1 DEF AtOrder
    <3>3. ASSUME NEW s \in Requests, AtOrder(s, p), reqs[s].step = 1,
                 reqs[s].kind \in {"repay", "unpay"}
          PROVE  advances'[reqs[s].advance] = advances[reqs[s].advance]
      <4>1. Fit(reqs[s]) /\ reqs[s] # None /\ reqs[s].order = p
        BY <1>7, <3>3 DEF AtOrder
      <4>2. reqs[s].advance \in Advances
        BY <3>3, <4>1 DEF Fit
      <4>3. reqs[s].advance # a
        <5> SUFFICES ASSUME reqs[s].advance = a
                     PROVE  FALSE
          OBVIOUS
        <5>1. reqs[r].kind # "pay" /\ a = reqs[r].advance
          BY <3>3, <4>1 DEF Fit
        <5>2. OnPayment(r, a) /\ OnPayment(s, a)
          BY <3>3, <4>1, <5>1 DEF OnPayment
        <5>3. reqs[s].order = o
          BY <1>0, <5>2 DEF RequestsFit, PaymentsAgreed
        <5> QED
          BY <2>1, <4>1, <5>3
      <4> QED
        BY <4>2, <4>3
    <3> QED
      BY <2>0, <3>1, <3>2, <3>3, FineKept
  <2>2. ASSUME p = o
        PROVE  OrderFine(o)'
    <3>1. OrderFine(o) /\ AtOrder(r, o) /\ o \notin raced
      BY <2>0, <2>2 DEF AtOrder
    <3>2. o \in Sold!LiveOrders /\ Told(reqs[r])
            /\ \A s \in Requests : AtOrder(s, o) => s = r
      BY <3>1 DEF OrderFine, InTurn
    <3>3. reqs[r].row.balance = OrderTotal - Sold!Paid(o)
      BY <3>2 DEF Told
    <3>4. Sold!Paid(o) \in Nat /\ OrderTotal \in Int /\ reqs[r].old \in Nat /\ reqs[r].new \in Nat
      BY <1>0, AdvancesFit, RequestFacts, CrmFacts
    <3>5. Sold!Change(reqs[r]) \in Int
      BY <3>4 DEF Sold!Change
    <3>6. Sold!Paid(o)' = Sold!Paid(o) - Sold!Change(reqs[r])
      BY <3>1
    <3>6a. reqs[r].row.balance + Sold!Change(reqs[r]) = OrderTotal - Sold!Paid(o)'
      BY <3>3, <3>4, <3>5, <3>6
    <3>7. Sold!Change(new) = Sold!Change(reqs[r])
      BY <1>2 DEF Sold!Change
    <3>8. Told(reqs[r])'
      <4>1. new.row.balance + Sold!Change(new) = OrderTotal - Sold!Paid(o)'
        BY <1>2, <3>6a, <3>7
      <4> QED
        BY <1>1, <1>2, <4>1 DEF Told, Sold!Change
    <3>9. \A s \in Requests : AtOrder(s, o)' <=> s = r
      BY <1>1, <1>2, <3>2 DEF AtOrder
    <3>10. InTurn(o)'
      BY <1>1, <3>2, <3>8, <3>9 DEF InTurn
    <3>11. BalanceRight(o)'
      BY <3>9 DEF BalanceRight, Sold!Busy, AtOrder
    <3> QED
      BY <3>10, <3>11 DEF OrderFine
  <2> QED
    BY <2>1, <2>2
<1> QED
  BY <1>3, <1>4, <1>5, <1>6, <1>8, <1>9, CrmJoined

LEMMA AdvanceStep ==
  ASSUME CrmAssumption, CrmInv, NEW r \in Requests, NEW a \in Advances, Sold!WriteAdvance(r, a)
  PROVE  CrmInv'
<1>0. /\ Tables /\ LeadsTyped /\ Sold!OrdersDistinct /\ RequestsFit /\ PaymentsOwned
      /\ \A p \in Orders \ raced : OrderFine(p)
  BY CrmParts
<1>1. /\ reqs[r] # None /\ reqs[r].kind \in {"pay", "repay", "unpay"} /\ reqs[r].step = 1
      /\ IF reqs[r].kind = "pay" THEN advances[a] = None ELSE a = reqs[r].advance
      /\ UNCHANGED <<leads, deals, quotes, orders, conversions, raced>>
      /\ \/ /\ reqs[r].kind = "unpay"
            /\ advances' = [advances EXCEPT ![a] = Gone]
            /\ reqs' = [reqs EXCEPT ![r].step = 2]
         \/ /\ reqs[r].kind # "unpay" /\ reqs[r].order \in Sold!LiveOrders
            /\ advances' =
               [advances EXCEPT ![a] = [order |-> reqs[r].order, amount |-> reqs[r].new]]
            /\ reqs' = [reqs EXCEPT ![r].step = 2]
         \/ /\ reqs[r].kind # "unpay" /\ reqs[r].order \notin Sold!LiveOrders
            /\ reqs' = [reqs EXCEPT ![r] = None]
            /\ UNCHANGED advances
  BY DEF Sold!WriteAdvance, Sold!Finish
<1>2. PICK q \in Sold!RequestRows : q = reqs[r]
  BY <1>0, <1>1, RequestFacts
<1>3. Fit(q) /\ q.order \in Orders /\ q.new \in Nat /\ q.old \in Nat
  BY <1>0, <1>1, <1>2, RequestFacts DEF Fit
<1>4. PICK o \in Orders : o = q.order
  BY <1>3
<1>5. PICK new : new = [q EXCEPT !.step = 2]
  OBVIOUS
<1>6. /\ new \in Sold!RequestRows
      /\ new.kind = q.kind /\ new.step = 2 /\ new.order = o /\ new.row = q.row
      /\ new.advance = q.advance /\ new.old = q.old /\ new.new = q.new
  BY <1>4, <1>5 DEF Sold!RequestRows
<1>7. Sold!IsRow(advances[a]) => advances[a].order = o
  BY <1>1, <1>2, <1>3, <1>4 DEF Fit, Sold!IsRow
<1>8. ASSUME o \notin raced
      PROVE  /\ o \in Sold!LiveOrders
             /\ q.kind \in {"repay", "unpay"} => advances[a] = [order |-> o, amount |-> q.old]
  <2>1. AtOrder(r, o)
    BY <1>1, <1>2, <1>4 DEF AtOrder
  <2>2. o \in Sold!LiveOrders /\ Told(q)
    BY <1>0, <1>2, <1>8, <2>1 DEF OrderFine, InTurn
  <2> QED
    BY <1>1, <1>2, <1>4, <2>2 DEF Told
<1>9. reqs' = [reqs EXCEPT ![r].step = 2] => reqs' = [reqs EXCEPT ![r] = new]
  BY <1>0, <1>2, <1>5 DEF Tables
<1>10. ASSUME q.kind = "unpay", advances' = [advances EXCEPT ![a] = Gone],
              reqs' = [reqs EXCEPT ![r] = new]
       PROVE  CrmInv'
  <2>1. /\ advances' \in [Advances -> Sold!AdvanceRows \cup {None, Gone}]
        /\ \A b \in Advances \ {a} : advances'[b] = advances[b]
        /\ advances'[a] # None /\ ~Sold!IsRow(advances'[a])
    BY <1>0, <1>10, CrmFacts DEF Tables, Sold!IsRow
  <2>2. /\ Sold!IsRow(advances[a]) => Sold!Paid(o)' = Sold!Paid(o) - advances[a].amount
        /\ \A p : p # o => Sold!Paid(p)' = Sold!Paid(p)
    BY <1>0, <1>7, <1>10, PaidBack
  <2>3. ASSUME o \notin raced
        PROVE  Sold!Paid(o)' = Sold!Paid(o) - Sold!Change(q)
    <3>1. advances[a] = [order |-> o, amount |-> q.old]
      BY <1>8, <1>10, <2>3
    <3>2. PICK adv : adv = advances[a] /\ adv.amount = q.old /\ adv.order = o
      BY <3>1
    <3>3. Sold!IsRow(advances[a])
      BY <1>3, <1>10, <3>1, CrmFacts DEF Fit, Sold!AdvanceRows, Sold!IsRow
    <3>4. Sold!Change(q) = q.old
      BY <1>3, <1>10 DEF Sold!Change
    <3> QED
      BY <2>2, <3>2, <3>3, <3>4
  <2> QED
    BY <1>1, <1>2, <1>4, <1>6, <1>10, <2>1, <2>2, <2>3, AdvanceWritten
<1>11. ASSUME q.kind # "unpay", o \in Sold!LiveOrders, reqs' = [reqs EXCEPT ![r] = new],
              advances' = [advances EXCEPT ![a] = [order |-> o, amount |-> q.new]]
       PROVE  CrmInv'
  <2>0. PICK row : row = [order |-> o, amount |-> q.new]
    OBVIOUS
  <2>1. row \in Sold!AdvanceRows /\ row.order = o /\ row.amount = q.new
    BY <1>1, <1>2, <1>3, <1>11, <2>0 DEF Fit, Sold!AdvanceRows
  <2>2. /\ advances' \in [Advances -> Sold!AdvanceRows \cup {None, Gone}]
        /\ \A b \in Advances \ {a} : advances'[b] = advances[b]
        /\ advances'[a] = row /\ row # None
    BY <1>0, <1>11, <2>0, <2>1, CrmFacts DEF Tables
  <2>4. /\ ~Sold!IsRow(advances[a]) => Sold!Paid(o)' = Sold!Paid(o) + row.amount
        /\ Sold!IsRow(advances[a]) => Sold!Paid(o)' = Sold!Paid(o) + row.amount - advances[a].amount
        /\ \A p : p # o => Sold!Paid(p)' = Sold!Paid(p)
    BY <1>0, <1>7, <2>1, <2>2, PaidWritten
  <2>5. ASSUME o \notin raced
        PROVE  Sold!Paid(o)' = Sold!Paid(o) - Sold!Change(q)
    <3>0. Sold!Paid(o) \in Nat
      BY <1>0, AdvancesFit
    <3>1. Sold!Change(q) = q.old - q.new
      BY <1>11 DEF Sold!Change
    <3>2. ASSUME q.kind = "pay"
          PROVE  Sold!Paid(o)' = Sold!Paid(o) - Sold!Change(q)
      <4>1. ~Sold!IsRow(advances[a]) /\ q.old = 0
        BY <1>1, <1>2, <1>3, <3>2 DEF Sold!IsRow, Fit
      <4>2. Sold!Paid(o)' = Sold!Paid(o) + row.amount
        BY <2>4, <4>1
      <4> QED
        BY <1>3, <2>1, <3>0, <3>1, <4>1, <4>2
    <3>3. ASSUME q.kind = "repay"
          PROVE  Sold!Paid(o)' = Sold!Paid(o) - Sold!Change(q)
      <4>1. advances[a] = [order |-> o, amount |-> q.old]
        BY <1>8, <2>5, <3>3
      <4>2. PICK adv : adv = advances[a] /\ adv.amount = q.old /\ adv.order = o
        BY <4>1
      <4>3. Sold!IsRow(advances[a])
        BY <1>3, <3>3, <4>1, CrmFacts DEF Fit, Sold!AdvanceRows, Sold!IsRow
      <4>4. Sold!Paid(o)' = Sold!Paid(o) + row.amount - q.old
        BY <2>4, <4>2, <4>3
      <4> QED
        BY <1>3, <2>1, <3>0, <3>1, <4>4
    <3> QED
      BY <1>1, <1>2, <1>11, <3>2, <3>3
  <2>6. /\ \A p : p # o => Sold!Paid(p)' = Sold!Paid(p)
        /\ advances'[a] # None
        /\ Sold!IsRow(advances'[a]) => advances'[a].order = o /\ o \in Sold!LiveOrders
    BY <1>11, <2>1, <2>2, <2>4
  <2>7. reqs' = [reqs EXCEPT ![r] = new]
    BY <1>11
  <2> QED
    BY <1>1, <1>2, <1>4, <1>6, <2>2, <2>5, <2>6, <2>7, AdvanceWritten
<1>12. ASSUME q.kind # "unpay", o \notin Sold!LiveOrders, advances' = advances,
              reqs' = [reqs EXCEPT ![r] = None]
       PROVE  CrmInv'
  <2>1. Sold!OrdersDistinct' /\ Sold!LiveOrders' = Sold!LiveOrders
    BY <1>0, <1>1, OrdersStayDistinct DEF Sold!LiveOrders, Sold!IsRow
  <2>2. orders' \in [Orders -> Sold!OrderRows \cup {None, Gone}] /\ raced \subseteq Orders
    BY <1>0, <1>1 DEF Tables, LeadsTyped
  <2>3. \A p \in Orders \ raced' : orders'[p] = orders[p] /\ ~AtOrder(r, p)
    BY <1>1, <1>2, <1>4, <1>8, <1>12 DEF AtOrder
  <2> QED
    BY <1>1, <1>12, <2>1, <2>2, <2>3, RequestEnds
<1> QED
  BY <1>1, <1>2, <1>4, <1>9, <1>10, <1>11, <1>12

LEMMA CrmInvInit ==
  ASSUME CrmAssumption, Sold!Init
  PROVE  CrmInv
<1>1. /\ \A o \in Orders : orders[o] = None /\ \A a \in Advances : advances[a] = None
      /\ \A r \in Requests : reqs[r] = None
      /\ orders = [o \in Orders |-> None] /\ advances = [a \in Advances |-> None]
      /\ reqs = [r \in Requests |-> None] /\ quotes = [q \in Quotes |-> None]
      /\ conversions = [l \in Leads |-> {}] /\ leads = [l \in Leads |-> None]
      /\ deals = [d \in Sold!DealIds |-> None] /\ raced = {}
  BY DEF Sold!Init
<1>2. Tables /\ LeadsTyped
  BY <1>1 DEF Tables, LeadsTyped
<1>3. LeadsConverted
  BY <1>1, CrmFacts DEF LeadsConverted
<1>4. Sold!OrdersDistinct /\ PaymentsOwned
  BY <1>1 DEF Sold!OrdersDistinct, Sold!LiveOrders, PaymentsOwned, Sold!IsRow
<1>5. RequestsFit
  BY <1>1 DEF RequestsFit, PaymentsAgreed, OnPayment
<1>6. \A o \in Orders \ raced : OrderFine(o)
  BY <1>1 DEF OrderFine, InTurn, BalanceRight, AtOrder, Sold!LiveOrders, Sold!IsRow
<1> QED
  BY <1>2, <1>3, <1>4, <1>5, <1>6, CrmParts

LEMMA CrmInvNext ==
  ASSUME CrmAssumption, CrmInv, Sold!Next
  PROVE  CrmInv'
<1>1. CASE \/ \E l \in Leads : Sold!AddLead(l)
           \/ \E l \in Leads, c \in Codes : Sold!ConvertLead(l, c)
           \/ \E d \in HandIds, l \in Leads \cup {NoLead} : Sold!AddDeal(d, l)
           \/ \E q \in Quotes, d \in Sold!DealIds : Sold!AddQuotation(q, d)
           \/ \E q, source \in Quotes, d \in Sold!DealIds : Sold!ImportQuotation(q, source, d)
           \/ \E q \in Quotes : Sold!DeleteQuotation(q)
  BY <1>1, RegistrySteps
<1>2. CASE \E r \in Requests, d \in Sold!DealIds, q \in Quotes : Sold!ReadLastNumber(r, d, q)
  BY <1>2, ReadsLastNumber
<1>3. CASE \E r \in Requests, o \in Orders : Sold!PlaceOrder(r, o) \/ Sold!ReadOrder(r, o)
  BY <1>3, OrderPlaced, RequestReads
<1>4. CASE \E o \in Orders : Sold!DeleteOrder(o)
  BY <1>4, OrderDeleted
<1>5. CASE \/ \E r \in Requests, o \in Orders, n \in Amounts : Sold!ReadForPayment(r, o, n)
           \/ \E r \in Requests, a \in Advances, n \in Amounts : Sold!ReadAdvance(r, a, "repay", n)
           \/ \E r \in Requests, a \in Advances : Sold!ReadAdvance(r, a, "unpay", 0)
  BY <1>5, RequestReads
<1>6. CASE \E r \in Requests, a \in Advances : Sold!WriteAdvance(r, a)
  BY <1>6, AdvanceStep
<1>7. CASE \E r \in Requests : Sold!SaveOrder(r) \/ Sold!WriteBalance(r) \/ Sold!Die(r)
  BY <1>7, OrderSaved, BalanceWritten, RequestDies
<1> QED
  BY <1>1, <1>2, <1>3, <1>4, <1>5, <1>6, <1>7 DEF Sold!Next

LEMMA CrmInvStep ==
  ASSUME CrmAssumption, CrmInv, [Sold!Next]_crmVars
  PROVE  CrmInv'
<1>1. CASE Sold!Next
  BY <1>1, CrmInvNext
<1>2. CASE UNCHANGED crmVars
  <2>0. UNCHANGED <<leads, deals, quotes, orders, advances, reqs, conversions, raced>>
    BY <1>2 DEF crmVars
  <2>1. LeadsTyped /\ LeadsConverted /\ Tables
    BY CrmParts
  <2>2. LeadsTyped' /\ LeadsConverted'
    BY <2>0, <2>1 DEF LeadsTyped, LeadsConverted
  <2> QED
    BY <2>0, <2>1, <2>2, RegistryKept DEF Tables
<1> QED
  BY <1>1, <1>2

CrmPart == part = "crm" => CrmInv

LEMMA CrmHolds == CoreSpec => []CrmPart
<1>1. CoreInit => CrmPart
  BY CrmInvInit, CrmAssumption DEF CoreInit, CrmPart
<1>2. CrmPart /\ [CoreNext]_coreVars => CrmPart'
  <2>1. [CoreNext]_coreVars => part' = part /\ (part = "crm" => [Sold!Next]_crmVars)
    BY DEF CoreNext, coreVars
  <2> QED
    BY <2>1, CrmInvStep, CrmAssumption DEF CrmPart
<1> QED
  BY <1>1, <1>2, PTL DEF CoreSpec

(* The balance of an order is its total less its payments whenever no request *)
(* is at work on it, unless two requests overlapped on it or one died         *)
(* half-way, and no payment outlives its order (OrderPaymentView,             *)
(* OrderDetailView of src/apps/core/crm_views.py).                           *)
THEOREM CoreBalanceExplained == CoreSpec => []BalanceExplained
<1>1. CrmPart => BalanceExplained
  BY DEF CrmPart, BalanceExplained, CrmInv, Sold!BalanceExplained
<1> QED
  BY <1>1, CrmHolds, PTL

-----------------------------------------------------------------------------
LEMMA FormsFacts ==
  ASSUME FormsAssumption
  PROVE  /\ None \notin Requests /\ None \notin Formed!LeadRows /\ None \notin Formed!EditRows
         /\ MaxProducts \in Nat /\ MaxWritten \in Nat /\ None # Gone
         /\ None \notin Formed!WorkRows /\ None \notin 1..MaxProducts
         /\ None \notin Formed!QuoteRows /\ Gone \notin Formed!QuoteRows
BY DEF FormsAssumption, Formed!ContactsConstants, Formed!QuotesConstants

ContactsTyped ==
  /\ lead \in Formed!LeadRows \cup {None} /\ contacts \in SUBSET Formed!ContactRows
  /\ edits \in [Requests -> Formed!EditRows \cup {None}] /\ made \in Nat

(* What the proofs about Forms need beside its properties.                  *)

(* A request of the lead form holds the lead, which is as it read it; one     *)
(* that has saved the client holds that; and the contacts it is about to      *)
(* replace are all there are.                                               *)
EditFits(r) ==
  /\ lead # None
  /\ edits[r].form = "lead" => leadLock = r /\ edits[r].lead = lead
  /\ edits[r].step # "save" => clientLock = r
  /\ edits[r].step = "clear" => edits[r].lists # None
  /\ edits[r].step = "end" /\ edits[r].lists # None => edits[r].seen = contacts

ContactsInv ==
  /\ lead \in Formed!LeadRows \cup {None} /\ contacts \in SUBSET Formed!ContactRows
  /\ edits \in [Requests -> Formed!EditRows \cup {None}] /\ made \in Nat
  /\ \A r \in Requests : edits[r] # None => EditFits(r)
  /\ Formed!ContactsOfOneEdit /\ Formed!LeadConvertedOnce

(* An edit holds the header of its quotation, which nobody deletes, and the   *)
(* rows it is about to replace are all there are.  A copy has rows of one     *)
(* list; unless the source changed meanwhile, it has all of that list, with   *)
(* the parts read so far.                                                   *)
PartsRead(step) == IF step = 2 THEN {} ELSE IF step = 3 THEN {"items"} ELSE Formed!Parts

WorkFits(w, r) ==
  /\ w.kind = "edit" =>
       /\ locks[w.quote] = r /\ Formed!IsRow(w.quote)
       /\ w.step = 2 => w.rows = lists[w.quote].products
  /\ w.kind = "copy" =>
       /\ w.step = 1 => w.rows = {}
       /\ \A p \in w.rows : p.list = w.list
       /\ w.clean =>
            /\ Formed!IsRow(w.quote) /\ lists[w.quote].clean
            /\ w.step > 1 =>
                 /\ w.list = lists[w.quote].list
                 /\ w.rows = [list : {w.list}, place : 1..sizes[w.list],
                              parts : {PartsRead(w.step)}]

QuotesInv ==
  /\ lists \in [Copies -> Formed!QuoteRows \cup {None, Gone}]
  /\ locks \in [Copies -> Requests \cup {None}]
  /\ works \in [Requests -> Formed!WorkRows \cup {None}]
  /\ sizes \in Seq(1..MaxProducts) /\ Len(sizes) <= MaxWritten
  /\ \A q \in Copies : Formed!IsRow(q) /\ lists[q].clean => lists[q].list \in 1..Len(sizes)
  /\ \A r \in Requests : works[r] # None => WorkFits(works[r], r)
  /\ Formed!QuotationsWhole

LEMMA EditTyped ==
  ASSUME ContactsInv, NEW r \in Requests, edits[r] # None
  PROVE  /\ edits[r] \in Formed!EditRows /\ EditFits(r)
         /\ edits[r].form \in {"client", "lead"} /\ edits[r].step \in {"save", "clear", "end"}
         /\ edits[r].n \in Nat /\ edits[r].lists \in (SUBSET Formed!Kinds) \cup {None}
         /\ edits[r].source \in Sources \cup {None} /\ edits[r].lead \in Formed!LeadRows \cup {None}
         /\ edits[r].seen \in SUBSET Formed!ContactRows
<1>1. PICK e \in Formed!EditRows : e = edits[r]
  BY DEF ContactsInv
<1> QED
  BY <1>1 DEF ContactsInv, Formed!EditRows

(* A request that goes on: the others are as they were. *)
LEMMA EditGoesOn ==
  ASSUME FormsAssumption, ContactsInv, NEW r \in Requests, NEW new \in Formed!EditRows,
         edits' = [edits EXCEPT ![r] = new], made' \in Nat,
         UNCHANGED <<lead, contacts, converted, latest>>,
         leadLock' \in {leadLock, r}, leadLock' # leadLock => leadLock = None,
         clientLock' \in {clientLock, r}, clientLock' # clientLock => clientLock = None,
         lead # None,
         new.form = "lead" => leadLock' = r /\ new.lead = lead,
         new.step # "save" => clientLock' = r,
         new.step = "clear" => new.lists # None,
         new.step = "end" /\ new.lists # None => new.seen = contacts
  PROVE  ContactsInv'
<1>1. /\ edits'[r] = new /\ \A s \in Requests \ {r} : edits'[s] = edits[s]
      /\ edits' \in [Requests -> Formed!EditRows \cup {None}] /\ new # None
  BY FormsFacts DEF ContactsInv
<1>2. ASSUME NEW s \in Requests, edits'[s] # None
      PROVE  EditFits(s)'
  <2>1. CASE s = r
    BY <1>1, <2>1 DEF EditFits
  <2>2. CASE s # r
    <3>1. EditFits(s) /\ edits'[s] = edits[s]
      BY <1>1, <1>2, <2>2 DEF ContactsInv
    <3>2. s # None
      BY FormsFacts
    <3> QED
      BY <3>1, <3>2 DEF EditFits
  <2> QED
    BY <2>1, <2>2
<1> QED
  BY <1>1, <1>2
     DEF ContactsInv, Formed!ContactsOfOneEdit, Formed!LeadConvertedOnce

(* A request that ends, with or without having written. *)
LEMMA EditEnds ==
  ASSUME FormsAssumption, ContactsInv, NEW r \in Requests, edits[r] # None,
         Formed!Release(r),
         UNCHANGED <<made, converted>>,
         lead' \in Formed!LeadRows, lead'.converted = lead.converted,
         lead' = lead \/ leadLock = r,
         contacts' \in SUBSET Formed!ContactRows,
         contacts' = contacts \/ clientLock = r,
         contacts' = latest'
  PROVE  ContactsInv'
<1>1. /\ edits'[r] = None /\ \A s \in Requests \ {r} : edits'[s] = edits[s]
      /\ edits' \in [Requests -> Formed!EditRows \cup {None}]
      /\ leadLock' = Formed!Freed(leadLock, r) /\ clientLock' = Formed!Freed(clientLock, r)
  BY DEF ContactsInv, Formed!Release
<1>2. ASSUME NEW s \in Requests, edits'[s] # None
      PROVE  EditFits(s)'
  <2>1. s # r /\ EditFits(s) /\ edits'[s] = edits[s]
    BY <1>1, <1>2 DEF ContactsInv
  <2>2. lead' # None
    BY FormsFacts
  <2> QED
    BY <1>1, <2>1, <2>2 DEF EditFits, Formed!Freed
<1>3. lead # None
  BY DEF ContactsInv, EditFits
<1>4. lead' # None
  BY FormsFacts
<1> QED
  BY <1>1, <1>2, <1>3, <1>4
     DEF ContactsInv, Formed!ContactsOfOneEdit, Formed!LeadConvertedOnce

LEMMA ContactsReplaced ==
  ASSUME FormsAssumption, ContactsInv, NEW r \in Requests, edits[r] # None,
         edits[r].step = "end", Formed!Replace(r)
  PROVE  contacts' = latest' /\ contacts' \in SUBSET Formed!ContactRows /\ clientLock = r
<1>1. EditFits(r) /\ clientLock = r
  BY DEF ContactsInv, EditFits
<1>2. CASE edits[r].lists = None
  BY <1>1, <1>2 DEF Formed!Replace, ContactsInv, Formed!ContactsOfOneEdit
<1>3. CASE edits[r].lists # None
  <2>1. edits[r].n \in Nat /\ edits[r].lists \in SUBSET Formed!Kinds /\ edits[r].seen = contacts
    BY <1>1, <1>3, EditTyped DEF EditFits
  <2>2. Formed!NewRows(edits[r].n, edits[r].lists) \in SUBSET Formed!ContactRows
    BY <2>1 DEF Formed!NewRows, Formed!ContactRows
  <2> QED
    BY <1>1, <1>3, <2>1, <2>2 DEF Formed!Replace
<1> QED
  BY <1>2, <1>3

LEMMA ContactsInvInit ==
  ASSUME FormsAssumption, Formed!ContactsInit
  PROVE  ContactsInv
BY DEF Formed!ContactsInit, ContactsInv, Formed!ContactsOfOneEdit, Formed!LeadConvertedOnce

LEMMA EditOpened ==
  ASSUME FormsAssumption, ContactsInv, NEW r \in Requests,
         \/ \E lists_ \in SUBSET Formed!Kinds : Formed!OpenClient(r, lists_)
         \/ \E lists_ \in (SUBSET Formed!Kinds) \cup {None}, s \in Sources \cup {None} :
              Formed!OpenLead(r, lists_, s)
  PROVE  ContactsInv'
<1>0. lead \in Formed!LeadRows \cup {None} /\ made \in Nat
  BY DEF ContactsInv
<1>1. ASSUME NEW ls \in SUBSET Formed!Kinds, Formed!OpenClient(r, ls)
      PROVE  ContactsInv'
  <2>1. PICK new : new = Formed!Edit("client", ls, None, None)
    OBVIOUS
  <2>2. new \in Formed!EditRows /\ new.form = "client" /\ new.step = "save"
    BY <1>0, <2>1 DEF Formed!Edit, Formed!EditRows
  <2>3. /\ edits' = [edits EXCEPT ![r] = new] /\ made' = made + 1 /\ lead # None
        /\ UNCHANGED <<lead, contacts, leadLock, clientLock, converted, latest>>
    BY <1>1, <2>1 DEF Formed!OpenClient
  <2>4. made' \in Nat
    BY <1>0, <2>3
  <2> QED
    BY <2>2, <2>3, <2>4, EditGoesOn
<1>2. ASSUME NEW ls \in (SUBSET Formed!Kinds) \cup {None},
             NEW s \in Sources \cup {None},
             Formed!OpenLead(r, ls, s)
      PROVE  ContactsInv'
  <2>1. PICK new : new = Formed!Edit("lead", ls, s, lead)
    OBVIOUS
  <2>2. new \in Formed!EditRows /\ new.form = "lead" /\ new.step = "save" /\ new.lead = lead
    BY <1>0, <2>1 DEF Formed!Edit, Formed!EditRows
  <2>3. /\ edits' = [edits EXCEPT ![r] = new] /\ made' = made + 1 /\ lead # None
        /\ leadLock = None /\ leadLock' = r
        /\ UNCHANGED <<lead, contacts, clientLock, converted, latest>>
    BY <1>2, <2>1 DEF Formed!OpenLead
  <2>4. made' \in Nat
    BY <1>0, <2>3
  <2> QED
    BY <2>2, <2>3, <2>4, EditGoesOn
<1> QED
  BY <1>1, <1>2

LEMMA EditAdvances ==
  ASSUME FormsAssumption, ContactsInv, NEW r \in Requests, Formed!SaveClient(r)
           \/ Formed!ClearContacts(r)
  PROVE  ContactsInv'
<1>0. edits[r] # None
  BY DEF Formed!SaveClient, Formed!ClearContacts
<1>1. PICK e \in Formed!EditRows : e = edits[r]
  BY <1>0, EditTyped
<1>2. /\ EditFits(r) /\ lead # None /\ made \in Nat /\ contacts \in SUBSET Formed!ContactRows
      /\ edits \in [Requests -> Formed!EditRows \cup {None}]
      /\ e.form = "lead" => leadLock = r /\ e.lead = lead
      /\ e.step # "save" => clientLock = r
      /\ e.step = "clear" => e.lists # None
  BY <1>0, <1>1 DEF ContactsInv, EditFits
<1>3. ASSUME Formed!SaveClient(r)
      PROVE  ContactsInv'
  <2>1. PICK new : new = [e EXCEPT !.step = IF e.lists = None THEN "end" ELSE "clear"]
    OBVIOUS
  <2>2. /\ new \in Formed!EditRows /\ new.form = e.form /\ new.lead = e.lead /\ new.lists = e.lists
        /\ new.step = IF e.lists = None THEN "end" ELSE "clear"
    BY <2>1 DEF Formed!EditRows
  <2>3. /\ edits' = [edits EXCEPT ![r] = new] /\ clientLock = None /\ clientLock' = r
        /\ UNCHANGED <<lead, contacts, leadLock, made, converted, latest>>
    BY <1>1, <1>2, <1>3, <2>1 DEF Formed!SaveClient
  <2> QED
    BY <1>2, <2>2, <2>3, EditGoesOn
<1>4. ASSUME Formed!ClearContacts(r)
      PROVE  ContactsInv'
  <2>1. PICK new : new = [e EXCEPT !.step = "end", !.seen = contacts]
    OBVIOUS
  <2>2. /\ new \in Formed!EditRows /\ new.form = e.form /\ new.lead = e.lead /\ new.lists = e.lists
        /\ new.step = "end" /\ new.seen = contacts
    BY <1>2, <2>1 DEF Formed!EditRows
  <2>3. /\ edits' = [edits EXCEPT ![r] = new] /\ e.step = "clear"
        /\ UNCHANGED <<lead, contacts, leadLock, clientLock, made, converted, latest>>
    BY <1>1, <1>2, <1>4, <2>1 DEF Formed!ClearContacts
  <2> QED
    BY <1>2, <2>2, <2>3, EditGoesOn
<1> QED
  BY <1>3, <1>4

LEMMA EditCommits ==
  ASSUME FormsAssumption, ContactsInv, NEW r \in Requests,
         Formed!EndClient(r) \/ Formed!EndLead(r) \/ Formed!RollBack(r)
  PROVE  ContactsInv'
<1>0. edits[r] # None /\ Formed!Release(r) /\ UNCHANGED <<made, converted>>
  BY DEF Formed!EndClient, Formed!EndLead, Formed!RollBack
<1>1. /\ lead \in Formed!LeadRows /\ contacts = latest /\ contacts \in SUBSET Formed!ContactRows
      /\ EditFits(r)
  BY <1>0 DEF ContactsInv, EditFits, Formed!ContactsOfOneEdit
<1>2. CASE Formed!RollBack(r)
  <2>1. UNCHANGED <<lead, contacts, latest>>
    BY <1>2 DEF Formed!RollBack
  <2> QED
    BY <1>0, <1>1, <2>1, EditEnds
<1>3. CASE Formed!EndClient(r)
  <2>1. UNCHANGED lead /\ Formed!Replace(r) /\ edits[r].step = "end"
    BY <1>3 DEF Formed!EndClient
  <2>2. contacts' = latest' /\ contacts' \in SUBSET Formed!ContactRows /\ clientLock = r
    BY <1>0, <2>1, ContactsReplaced
  <2> QED
    BY <1>0, <1>1, <2>1, <2>2, EditEnds
<1>4. CASE Formed!EndLead(r)
  <2>1. Formed!Replace(r) /\ edits[r].step = "end" /\ edits[r].form = "lead"
    BY <1>4 DEF Formed!EndLead
  <2>2. contacts' = latest' /\ contacts' \in SUBSET Formed!ContactRows /\ clientLock = r
    BY <1>0, <2>1, ContactsReplaced
  <2>3. leadLock = r /\ edits[r].lead = lead
    BY <1>1, <2>1 DEF EditFits
  <2>4. lead' \in Formed!LeadRows /\ lead'.converted = lead.converted
    <3>1. CASE lead' = lead
      BY <1>1, <3>1
    <3>2. ASSUME edits[r].source # None,
                 lead' = [edits[r].lead EXCEPT !.source = edits[r].source]
          PROVE  lead' \in Formed!LeadRows /\ lead'.converted = lead.converted
      <4>1. PICK s \in Sources : s = edits[r].source
        BY <1>0, <3>2, EditTyped
      <4>2. lead' = [lead EXCEPT !.source = s]
        BY <2>3, <3>2, <4>1
      <4> QED
        BY <1>1, <4>2 DEF Formed!LeadRows
    <3> QED
      BY <1>4, <3>1, <3>2 DEF Formed!EndLead
  <2> QED
    BY <1>0, <2>2, <2>3, <2>4, EditEnds
<1> QED
  BY <1>2, <1>3, <1>4

LEMMA LeadSteps ==
  ASSUME FormsAssumption, ContactsInv,
         \/ \E ls \in SUBSET Formed!Kinds, s \in Sources : Formed!AddLead(ls, s)
         \/ Formed!Convert
  PROVE  ContactsInv'
<1>0. /\ lead \in Formed!LeadRows \cup {None} /\ made \in Nat
         /\ contacts \in SUBSET Formed!ContactRows
      /\ \A r \in Requests : edits[r] # None => EditFits(r)
      /\ edits \in [Requests -> Formed!EditRows \cup {None}]
      /\ contacts = latest /\ converted = IF lead # None /\ lead.converted THEN 1 ELSE 0
  BY DEF ContactsInv, Formed!ContactsOfOneEdit, Formed!LeadConvertedOnce
<1>1. ASSUME NEW ls \in SUBSET Formed!Kinds, NEW s \in Sources, Formed!AddLead(ls, s)
      PROVE  ContactsInv'
  <2>1. /\ lead = None /\ lead' = [source |-> s, converted |-> FALSE]
        /\ contacts' = Formed!NewRows(made + 1, ls) /\ latest' = contacts' /\ made' = made + 1
        /\ UNCHANGED <<leadLock, clientLock, edits, converted>>
    BY <1>1 DEF Formed!AddLead
  <2>2. lead' \in Formed!LeadRows /\ lead'.converted = FALSE /\ converted = 0
    BY <1>0, <2>1 DEF Formed!LeadRows
  <2>3. contacts' \in SUBSET Formed!ContactRows /\ made' \in Nat
    BY <1>0, <2>1 DEF Formed!NewRows, Formed!ContactRows
  <2>4. \A r \in Requests : edits[r] = None
    BY <1>0, <2>1 DEF EditFits
  <2> QED
    BY <1>0, <2>1, <2>2, <2>3, <2>4
       DEF ContactsInv, Formed!ContactsOfOneEdit, Formed!LeadConvertedOnce
<1>2. ASSUME Formed!Convert
      PROVE  ContactsInv'
  <2>1. PICK row \in Formed!LeadRows : row = lead /\ ~row.converted
    BY <1>0, <1>2 DEF Formed!Convert
  <2>2. /\ leadLock = None /\ lead' = [row EXCEPT !.converted = TRUE]
        /\ converted' = converted + 1
        /\ UNCHANGED <<contacts, leadLock, clientLock, edits, made, latest>>
    BY <1>2, <2>1 DEF Formed!Convert
  <2>3. lead' \in Formed!LeadRows /\ lead'.converted = TRUE
    BY <2>2 DEF Formed!LeadRows
  <2>3a. lead # None /\ ~lead.converted /\ lead' # None
    BY <2>1, <2>3, FormsFacts
  <2>3b. converted = 0
    BY <1>0, <2>3a
  <2>4. converted' = 1 /\ lead' # None
    BY <2>2, <2>3a, <2>3b
  <2>5. ASSUME NEW r \in Requests, edits'[r] # None
        PROVE  EditFits(r)'
    <3>1. EditFits(r) /\ r # None
      BY <1>0, <2>2, <2>5, FormsFacts
    <3> QED
      BY <2>2, <2>4, <3>1 DEF EditFits
  <2> QED
    BY <1>0, <2>2, <2>3, <2>4, <2>5
       DEF ContactsInv, Formed!ContactsOfOneEdit, Formed!LeadConvertedOnce
<1> QED
  BY <1>1, <1>2

LEMMA ContactsInvStep ==
  ASSUME FormsAssumption, ContactsInv, [Formed!ContactsNext]_contactVars
  PROVE  ContactsInv'
<1>1. CASE Formed!ContactsNext
  BY <1>1, LeadSteps, EditOpened, EditAdvances, EditCommits DEF Formed!ContactsNext
<1>2. CASE UNCHANGED contactVars
  BY <1>2
     DEF contactVars, ContactsInv, Formed!ContactsOfOneEdit,
         Formed!LeadConvertedOnce, EditFits
<1> QED
  BY <1>1, <1>2

ContactsPart == part = "contacts" => ContactsInv

LEMMA ContactsHold == CoreSpec => []ContactsPart
<1>1. CoreInit => ContactsPart
  BY ContactsInvInit, FormsAssumption DEF CoreInit, ContactsPart
<1>2. ContactsPart /\ [CoreNext]_coreVars => ContactsPart'
  <2>1. [CoreNext]_coreVars =>
          part' = part /\ (part = "contacts" => [Formed!ContactsNext]_contactVars)
    BY DEF CoreNext, coreVars
  <2> QED
    BY <2>1, ContactsInvStep, FormsAssumption DEF ContactsPart
<1> QED
  BY <1>1, <1>2, PTL DEF CoreSpec

LEMMA LeadsConvertedOnce ==
  ASSUME LeadsConverted
  PROVE  Sold!ConvertedOnce
<1> SUFFICES ASSUME NEW l \in Leads
             PROVE  Cardinality(conversions[l]) = IF leads[l] = "converted" THEN 1 ELSE 0
  BY DEF Sold!ConvertedOnce, Sold!Cardinality, Cardinality
<1>1. CASE leads[l] = "converted"
  <2>1. PICK d \in Sold!DealIds : conversions[l] = {d}
    BY <1>1 DEF LeadsConverted
  <2>2. Cardinality({d}) = 1
    BY FS_Singleton
  <2> QED
    BY <1>1, <2>1, <2>2
<1>2. CASE leads[l] # "converted"
  <2>1. conversions[l] = {}
    BY <1>2 DEF LeadsConverted
  <2> QED
    BY <1>2, <2>1, FS_EmptySet
<1> QED
  BY <1>1, <1>2

(* A lead is converted into one deal, whether two employees convert it at     *)
(* once, deals are added for it by hand or the lead form writes its row back;  *)
(* orders have numbers, deals and quotations of their own (ConvertLeadView,    *)
(* LeadDetailView, OrderListCreateView of src/apps/core/crm_views.py).        *)
THEOREM CoreSoldOnce == CoreSpec => []SoldOnce
<1>1. CrmPart /\ ContactsPart => SoldOnce
  BY LeadsConvertedOnce
     DEF CrmPart, ContactsPart, SoldOnce, Sold!SoldOnce, CrmInv, ContactsInv
<1> QED
  BY <1>1, CrmHolds, ContactsHold, PTL

-----------------------------------------------------------------------------
QuoteTables ==
  /\ lists \in [Copies -> Formed!QuoteRows \cup {None, Gone}]
  /\ locks \in [Copies -> Requests \cup {None}]
  /\ works \in [Requests -> Formed!WorkRows \cup {None}]
  /\ sizes \in Seq(1..MaxProducts) /\ Len(sizes) <= MaxWritten

(* A quotation holds rows of one list, and that list whole if it is clean. *)
RowFits(q) ==
  Formed!IsRow(q) =>
    /\ lists[q].products \in SUBSET Formed!ProductRows
    /\ \A p \in lists[q].products : p.list = lists[q].list
    /\ lists[q].clean => /\ lists[q].list \in 1..Len(sizes)
                         /\ lists[q].products = Formed!Graph(lists[q].list, sizes[lists[q].list])

LEMMA QuotesParts ==
  QuotesInv <=> /\ QuoteTables /\ \A q \in Copies : RowFits(q)
                /\ \A r \in Requests : works[r] # None => WorkFits(works[r], r)
BY DEF QuotesInv, QuoteTables, RowFits, Formed!QuotationsWhole

LEMMA QuotesJoined ==
  ASSUME QuoteTables', \A q \in Copies : RowFits(q)',
         \A r \in Requests : works'[r] # None => \E w : w = works'[r] /\ WorkFits(w, r)'
  PROVE  QuotesInv'
<1>1. ASSUME NEW r \in Requests, works'[r] # None
      PROVE  WorkFits(works[r], r)'
  <2>1. PICK w : w = works'[r] /\ WorkFits(w, r)'
    BY <1>1
  <2> QED
    BY <2>1 DEF WorkFits, Formed!IsRow
<1> QED
  BY <1>1
     DEF QuotesInv, QuoteTables, RowFits, Formed!QuotationsWhole, Formed!IsRow

LEMMA WrittenIsLen ==
  ASSUME QuoteTables
  PROVE  Formed!Written = Len(sizes) /\ Len(sizes) \in Nat
<1>1. DOMAIN sizes = 1..Len(sizes) /\ Len(sizes) \in Nat
  BY DEF QuoteTables
<1>2. ASSUME NEW n \in Nat
      PROVE  Cardinality(1..n) = n
  <2>1. Cardinality(1..n) = IF 1 > n THEN 0 ELSE n - 1 + 1
    BY FS_Interval
  <2> QED
    BY <2>1
<1> QED
  BY <1>1, <1>2 DEF Formed!Written, Formed!Cardinality, Cardinality

LEMMA WorkTyped ==
  ASSUME QuotesInv, NEW r \in Requests, works[r] # None
  PROVE  /\ works[r] \in Formed!WorkRows /\ WorkFits(works[r], r)
         /\ works[r].kind \in {"edit", "delete", "copy"} /\ works[r].step \in 1..4
         /\ works[r].quote \in Copies /\ works[r].rows \in SUBSET Formed!ProductRows
         /\ works[r].size \in (1..MaxProducts) \cup {None}
         /\ works[r].list \in 0..MaxWritten /\ works[r].clean \in BOOLEAN
<1>1. PICK w \in Formed!WorkRows : w = works[r]
  BY DEF QuotesInv
<1> QED
  BY <1>1 DEF QuotesInv, Formed!WorkRows

LEMMA RowTyped ==
  ASSUME FormsAssumption, QuoteTables, NEW q \in Copies
  PROVE  /\ Formed!IsRow(q) <=> lists[q] \in Formed!QuoteRows
         /\ Formed!IsRow(q) => /\ lists[q].list \in 0..MaxWritten
                        /\ lists[q].products \in SUBSET Formed!ProductRows
                        /\ lists[q].clean \in BOOLEAN
<1>1. lists[q] \in Formed!QuoteRows \cup {None, Gone}
  BY DEF QuoteTables
<1>2. Formed!IsRow(q) <=> lists[q] \in Formed!QuoteRows
  <2>1. Formed!IsRow(q) => lists[q] \in Formed!QuoteRows
    BY <1>1 DEF Formed!IsRow
  <2>2. lists[q] \in Formed!QuoteRows => Formed!IsRow(q)
    BY FormsFacts DEF Formed!IsRow
  <2> QED
    BY <2>1, <2>2
<1>3. ASSUME Formed!IsRow(q)
      PROVE  /\ lists[q].list \in 0..MaxWritten /\ lists[q].products \in SUBSET Formed!ProductRows
             /\ lists[q].clean \in BOOLEAN
  BY <1>2, <1>3 DEF Formed!QuoteRows
<1> QED
  BY <1>2, <1>3

(* Work on a quotation that is as it was. *)
LEMMA WorkKept ==
  ASSUME QuotesInv, NEW s, NEW w \in Formed!WorkRows, WorkFits(w, s),
         \A i \in 1..Len(sizes) : sizes'[i] = sizes[i],
         w.kind = "edit" => locks'[w.quote] = s /\ lists'[w.quote] = lists[w.quote],
         w.kind = "copy" /\ w.clean => lists'[w.quote] = lists[w.quote]
  PROVE  WorkFits(w, s)'
<1>1. w.quote \in Copies
  BY DEF Formed!WorkRows
<1>2. Formed!IsRow(w.quote) /\ lists[w.quote].clean => lists[w.quote].list \in 1..Len(sizes)
  BY <1>1 DEF QuotesInv
<1> QED
  BY <1>1, <1>2 DEF WorkFits, Formed!IsRow

LEMMA RowKept ==
  ASSUME NEW q \in Copies, RowFits(q), lists'[q] = lists[q],
         sizes \in Seq(1..MaxProducts), sizes' \in Seq(1..MaxProducts), Len(sizes') >= Len(sizes),
         \A i \in 1..Len(sizes) : sizes'[i] = sizes[i]
  PROVE  RowFits(q)'
BY DEF RowFits, Formed!IsRow, Formed!Graph

(* A request that reads: what is committed stays. *)
LEMMA WorkGoesOn ==
  ASSUME FormsAssumption, QuotesInv, NEW r \in Requests, NEW new \in Formed!WorkRows,
         works' = [works EXCEPT ![r] = new], UNCHANGED <<lists, sizes>>,
         locks' \in [Copies -> Requests \cup {None}],
         \A q \in Copies : locks[q] # None => locks'[q] = locks[q],
         WorkFits(new, r)'
  PROVE  QuotesInv'
<1>0. /\ QuoteTables /\ \A q \in Copies : RowFits(q)
      /\ \A s \in Requests : works[s] # None => WorkFits(works[s], s)
  BY QuotesParts
<1>1. /\ works'[r] = new /\ \A s \in Requests \ {r} : works'[s] = works[s]
      /\ works' \in [Requests -> Formed!WorkRows \cup {None}]
  BY <1>0 DEF QuoteTables
<1>2. QuoteTables'
  BY <1>0, <1>1 DEF QuoteTables
<1>3. \A q \in Copies : RowFits(q)'
  BY <1>0 DEF RowFits, Formed!IsRow
<1>4. ASSUME NEW s \in Requests, works'[s] # None
      PROVE  \E w : w = works'[s] /\ WorkFits(w, s)'
  <2>1. CASE s = r
    BY <1>1, <2>1
  <2>2. CASE s # r
    <3>1. PICK w \in Formed!WorkRows : w = works[s] /\ works'[s] = works[s] /\ WorkFits(w, s)
      BY <1>1, <1>4, <2>2, WorkTyped
    <3>2. w.kind = "edit" => locks'[w.quote] = s
      BY <3>1, FormsFacts DEF WorkFits, Formed!WorkRows
    <3>3. WorkFits(w, s)'
      BY <3>1, <3>2, WorkKept
    <3> QED
      BY <3>1, <3>3
  <2> QED
    BY <2>1, <2>2
<1> QED
  BY <1>2, <1>3, <1>4, QuotesJoined

(* A quotation is written: nobody else edits it, and its copies under way are *)
(* marked.                                                                  *)
LEMMA QuotationWritten ==
  ASSUME FormsAssumption, QuotesInv, NEW q \in Copies,
         NEW row \in Formed!QuoteRows \cup {None, Gone},
         lists' = [lists EXCEPT ![q] = row],
         sizes' \in Seq(1..MaxProducts), Len(sizes') <= MaxWritten, Len(sizes') >= Len(sizes),
         \A i \in 1..Len(sizes) : sizes'[i] = sizes[i],
         RowFits(q)',
         locks' \in [Copies -> Requests \cup {None}],
         works' \in [Requests -> Formed!WorkRows \cup {None}],
         \A s \in Requests : works'[s] # None =>
            /\ works[s] # None
            /\ \/ works'[s] = works[s]
               \/ works[s].kind = "copy" /\ works'[s] = [works[s] EXCEPT !.clean = FALSE]
            /\ works[s].kind = "edit" =>
                 /\ works[s].quote = q => row = lists[q]
                 /\ locks'[works[s].quote] = locks[works[s].quote]
            /\ works'[s].kind = "copy" /\ works'[s].clean /\ works[s].quote = q => row = lists[q]
  PROVE  QuotesInv'
<1>0. /\ QuoteTables /\ \A p \in Copies : RowFits(p)
  BY QuotesParts
<1>1. /\ lists' \in [Copies -> Formed!QuoteRows \cup {None, Gone}]
      /\ lists'[q] = row /\ \A p \in Copies \ {q} : lists'[p] = lists[p]
  BY <1>0 DEF QuoteTables
<1>2. QuoteTables'
  BY <1>1 DEF QuoteTables
<1>3. ASSUME NEW p \in Copies
      PROVE  RowFits(p)'
  <2>1. sizes \in Seq(1..MaxProducts)
    BY <1>0 DEF QuoteTables
  <2> QED
    BY <1>0, <1>1, <2>1, RowKept
<1>4. ASSUME NEW s \in Requests, works'[s] # None
      PROVE  \E w : w = works'[s] /\ WorkFits(w, s)'
  <2>1. PICK v \in Formed!WorkRows : v = works[s] /\ WorkFits(v, s)
    BY <1>4, WorkTyped
  <2>2. PICK w \in Formed!WorkRows : w = works'[s]
    BY <1>4
  <2>3. /\ w = v \/ (v.kind = "copy" /\ w = [v EXCEPT !.clean = FALSE])
        /\ v.kind = "edit" => (v.quote = q => row = lists[q]) /\ locks'[v.quote] = locks[v.quote]
        /\ w.kind = "copy" /\ w.clean /\ v.quote = q => row = lists[q]
    BY <1>4, <2>1, <2>2
  <2>4. WorkFits(w, s) /\ w.kind = v.kind /\ w.quote = v.quote /\ w.quote \in Copies
    <3>1. CASE w = v
      BY <2>1, <3>1 DEF Formed!WorkRows
    <3>2. ASSUME v.kind = "copy", w = [v EXCEPT !.clean = FALSE]
          PROVE  WorkFits(w, s) /\ w.kind = v.kind /\ w.quote = v.quote /\ w.quote \in Copies
      <4>1. /\ w.kind = v.kind /\ w.quote = v.quote /\ w.step = v.step /\ w.rows = v.rows
            /\ w.list = v.list /\ w.clean = FALSE /\ v.quote \in Copies
        BY <3>2 DEF Formed!WorkRows
      <4> QED
        BY <2>1, <3>2, <4>1 DEF WorkFits
    <3> QED
      BY <2>3, <3>1, <3>2
  <2>5. w.kind = "edit" => locks'[w.quote] = s /\ lists'[w.quote] = lists[w.quote]
    BY <1>1, <2>3, <2>4 DEF WorkFits
  <2>6. w.kind = "copy" /\ w.clean => lists'[w.quote] = lists[w.quote]
    BY <1>1, <2>3, <2>4
  <2>7. WorkFits(w, s)'
    BY <2>4, <2>5, <2>6, WorkKept
  <2> QED
    BY <2>2, <2>7
<1> QED
  BY <1>2, <1>3, <1>4, QuotesJoined

LEMMA QuotesInvInit ==
  ASSUME FormsAssumption, Formed!QuotesInit
  PROVE  QuotesInv
<1>1. sizes = <<>> /\ Len(sizes) = 0 /\ sizes \in Seq(1..MaxProducts)
  BY DEF Formed!QuotesInit
<1> QED
  BY <1>1, FormsFacts
     DEF Formed!QuotesInit, QuotesInv, Formed!QuotationsWhole, Formed!IsRow

LEMMA WorkShape ==
  ASSUME NEW w \in Formed!WorkRows
  PROVE  \E k \in {"edit", "delete", "copy"}, q \in Copies, n \in (1..MaxProducts) \cup {None},
            c \in BOOLEAN, st \in 1..4, rs \in SUBSET Formed!ProductRows, ls \in 0..MaxWritten :
          w = [kind |-> k, step |-> st, quote |-> q, rows |-> rs, size |-> n,
               list |-> ls, clean |-> c]
BY DEF Formed!WorkRows

LEMMA ListsOpened ==
  ASSUME FormsAssumption, QuotesInv, NEW r \in Requests, NEW q \in Copies,
         \/ \E n \in (1..MaxProducts) \cup {None} : Formed!OpenQuote(r, q, n)
         \/ Formed!CollectQuote(r, q)
         \/ Formed!ReadHeader(r, q)
  PROVE  QuotesInv'
<1>0. /\ QuoteTables /\ locks \in [Copies -> Requests \cup {None}]
      /\ \A p \in Copies : RowFits(p)
  BY QuotesParts DEF QuoteTables
<1>a. Formed!IsRow(q)
  BY DEF Formed!OpenQuote, Formed!CollectQuote, Formed!ReadHeader
<1>b. PICK row \in Formed!QuoteRows : row = lists[q]
  BY <1>0, <1>a, RowTyped
<1>c. row.products \in SUBSET Formed!ProductRows /\ row.clean \in BOOLEAN
  BY <1>0, <1>a, <1>b, RowTyped
<1>1. ASSUME NEW n \in (1..MaxProducts) \cup {None}, Formed!OpenQuote(r, q, n)
      PROVE  QuotesInv'
  <2>1. PICK new : new = Formed!Work("edit", q, {}, n)
    OBVIOUS
  <2>2. new \in Formed!WorkRows /\ new.kind = "edit" /\ new.step = 1 /\ new.quote = q
    BY <1>b, <1>c, <2>1, FormsFacts DEF Formed!Work, Formed!WorkRows
  <2>3. /\ works' = [works EXCEPT ![r] = new] /\ locks[q] = None /\ UNCHANGED <<lists, sizes>>
        /\ locks' = [locks EXCEPT ![q] = r]
    BY <1>1, <2>1 DEF Formed!OpenQuote
  <2>4. /\ locks' \in [Copies -> Requests \cup {None}] /\ locks'[q] = r
        /\ \A p \in Copies : locks[p] # None => locks'[p] = locks[p]
    BY <1>0, <2>3
  <2>5. WorkFits(new, r)'
    BY <1>a, <2>2, <2>3, <2>4 DEF WorkFits, Formed!IsRow
  <2> QED
    BY <2>2, <2>3, <2>4, <2>5, WorkGoesOn
<1>2. ASSUME Formed!CollectQuote(r, q)
      PROVE  QuotesInv'
  <2>1. PICK new : new = Formed!Work("delete", q, row.products, None)
    OBVIOUS
  <2>2. new \in Formed!WorkRows /\ new.kind = "delete"
    BY <1>b, <1>c, <2>1, FormsFacts DEF Formed!Work, Formed!WorkRows
  <2>3. works' = [works EXCEPT ![r] = new] /\ UNCHANGED <<lists, locks, sizes>>
    BY <1>2, <1>b, <2>1 DEF Formed!CollectQuote
  <2>5. WorkFits(new, r)'
    BY <2>2 DEF WorkFits
  <2> QED
    BY <1>0, <2>2, <2>3, <2>5, WorkGoesOn
<1>3. ASSUME Formed!ReadHeader(r, q)
      PROVE  QuotesInv'
  <2>1. PICK new : new = Formed!Work("copy", q, {}, None)
    OBVIOUS
  <2>2. /\ new \in Formed!WorkRows /\ new.kind = "copy" /\ new.step = 1 /\ new.quote = q
        /\ new.rows = {} /\ new.clean = lists[q].clean
    BY <1>b, <1>c, <2>1, FormsFacts DEF Formed!Work, Formed!WorkRows
  <2>3. works' = [works EXCEPT ![r] = new] /\ UNCHANGED <<lists, locks, sizes>>
    BY <1>3, <2>1 DEF Formed!ReadHeader
  <2>5. WorkFits(new, r)'
    BY <1>a, <2>2, <2>3 DEF WorkFits, Formed!IsRow
  <2> QED
    BY <1>0, <2>2, <2>3, <2>5, WorkGoesOn
<1> QED
  BY <1>1, <1>2, <1>3

LEMMA ProductsCleared ==
  ASSUME FormsAssumption, QuotesInv, NEW r \in Requests, Formed!ClearProducts(r)
  PROVE  QuotesInv'
<1>0. /\ QuoteTables /\ locks \in [Copies -> Requests \cup {None}]
  BY QuotesParts DEF QuoteTables
<1>1. PICK w \in Formed!WorkRows : w = works[r] /\ WorkFits(w, r)
  BY WorkTyped DEF Formed!ClearProducts
<1>2. /\ w.kind = "edit" /\ w.step = 1 /\ UNCHANGED <<lists, locks, sizes>>
      /\ locks[w.quote] = r /\ Formed!IsRow(w.quote)
  BY <1>1 DEF Formed!ClearProducts, WorkFits
<1>3. PICK q \in Copies : q = w.quote
  BY DEF Formed!WorkRows
<1>4. PICK row \in Formed!QuoteRows : row = lists[q] /\ row.products \in SUBSET Formed!ProductRows
  BY <1>0, <1>2, <1>3, RowTyped
<1>5. PICK new : new = [w EXCEPT !.step = 2, !.rows = row.products]
  OBVIOUS
<1>6. /\ new \in Formed!WorkRows /\ new.kind = "edit" /\ new.step = 2 /\ new.quote = q
      /\ new.rows = row.products
  <2>1. PICK k \in {"edit", "delete", "copy"}, v \in Copies, n \in (1..MaxProducts) \cup {None},
             c \in BOOLEAN, st \in 1..4, rs \in SUBSET Formed!ProductRows, ls \in 0..MaxWritten :
          w = [kind |-> k, step |-> st, quote |-> v, rows |-> rs, size |-> n,
               list |-> ls, clean |-> c]
    BY WorkShape
  <2>2. new = [kind |-> k, step |-> 2, quote |-> v, rows |-> row.products, size |-> n,
               list |-> ls, clean |-> c]
    BY <1>5, <2>1
  <2> QED
    BY <1>2, <1>3, <1>4, <2>1, <2>2 DEF Formed!WorkRows
<1>7. works' = [works EXCEPT ![r] = new]
  BY <1>0, <1>1, <1>2, <1>3, <1>4, <1>5 DEF Formed!ClearProducts, QuoteTables
<1>8. WorkFits(new, r)'
  BY <1>2, <1>3, <1>4, <1>6 DEF WorkFits, Formed!IsRow
<1> QED
  BY <1>0, <1>2, <1>6, <1>7, <1>8, WorkGoesOn

(* The products as they are read, before items and workings. *)
LEMMA ListRead ==
  ASSUME NEW L, NEW n
  PROVE  {[p EXCEPT !.parts = {}] : p \in [list : {L}, place : 1..n, parts : {Formed!Parts}]}
           = [list : {L}, place : 1..n, parts : {{}}]
<1> DEFINE A == {[p EXCEPT !.parts = {}] : p \in [list : {L}, place : 1..n, parts : {Formed!Parts}]}
           B == [list : {L}, place : 1..n, parts : {{}}]
<1>1. A \subseteq B
  OBVIOUS
<1>2. ASSUME NEW b \in B
      PROVE  b \in A
  <2>1. PICK p : p = [list |-> L, place |-> b.place, parts |-> Formed!Parts]
    OBVIOUS
  <2>2. p \in [list : {L}, place : 1..n, parts : {Formed!Parts}] /\ b = [p EXCEPT !.parts = {}]
    BY <2>1
  <2> QED
    BY <2>2
<1> QED
  BY <1>1, <1>2

LEMMA ProductsRead ==
  ASSUME FormsAssumption, QuotesInv, NEW r \in Requests, Formed!ReadProducts(r)
  PROVE  QuotesInv'
<1>0. /\ QuoteTables /\ locks \in [Copies -> Requests \cup {None}]
      /\ \A p \in Copies : RowFits(p)
  BY QuotesParts DEF QuoteTables
<1>1. PICK w \in Formed!WorkRows : w = works[r] /\ WorkFits(w, r)
  BY WorkTyped DEF Formed!ReadProducts
<1>2. w.kind = "copy" /\ w.step = 1 /\ UNCHANGED <<lists, locks, sizes>>
  BY <1>1 DEF Formed!ReadProducts
<1>3. PICK q \in Copies : q = w.quote
  BY DEF Formed!WorkRows
<1>4. PICK list : list = IF Formed!IsRow(q) THEN lists[q].list ELSE 0
  OBVIOUS
<1>5. PICK rs : rs = IF Formed!IsRow(q) THEN {[p EXCEPT !.parts = {}] :
             p \in lists[q].products} ELSE {}
  OBVIOUS
<1>6. list \in 0..MaxWritten /\ rs \in SUBSET Formed!ProductRows /\ \A p \in rs : p.list = list
  <2>1. CASE Formed!IsRow(q)
    <3>1. /\ lists[q].list \in 0..MaxWritten /\ lists[q].products \in SUBSET Formed!ProductRows
          /\ \A p \in lists[q].products : p.list = lists[q].list
      BY <1>0, <2>1, RowTyped DEF RowFits
    <3>2. ASSUME NEW p \in lists[q].products
          PROVE  /\ [p EXCEPT !.parts = {}] \in Formed!ProductRows
                 /\ [p EXCEPT !.parts = {}].list = lists[q].list
      BY <3>1 DEF Formed!ProductRows
    <3> QED
      BY <1>4, <1>5, <2>1, <3>1, <3>2
  <2>2. CASE ~Formed!IsRow(q)
    BY <1>4, <1>5, <2>2, FormsFacts
  <2> QED
    BY <2>1, <2>2
<1>7. PICK new : new = [w EXCEPT !.step = 2, !.list = list, !.rows = rs]
  OBVIOUS
<1>8. /\ new \in Formed!WorkRows /\ new.kind = "copy" /\ new.step = 2 /\ new.quote = q
      /\ new.list = list /\ new.rows = rs /\ new.clean = w.clean
  <2>1. PICK k \in {"edit", "delete", "copy"}, v \in Copies, n \in (1..MaxProducts) \cup {None},
             c \in BOOLEAN, st \in 1..4, rs0 \in SUBSET Formed!ProductRows, ls \in 0..MaxWritten :
          w = [kind |-> k, step |-> st, quote |-> v, rows |-> rs0, size |-> n,
               list |-> ls, clean |-> c]
    BY WorkShape
  <2>2. new = [kind |-> k, step |-> 2, quote |-> v, rows |-> rs, size |-> n,
               list |-> list, clean |-> c]
    BY <1>7, <2>1
  <2> QED
    BY <1>2, <1>3, <1>6, <2>1, <2>2 DEF Formed!WorkRows
<1>9. works' = [works EXCEPT ![r] = new]
  BY <1>0, <1>1, <1>2, <1>3, <1>4, <1>5, <1>7 DEF Formed!ReadProducts, QuoteTables
<1>10. ASSUME w.clean
       PROVE  /\ Formed!IsRow(q) /\ lists[q].clean /\ list = lists[q].list
              /\ rs = [list : {list}, place : 1..sizes[list], parts : {PartsRead(2)}]
  <2>1. Formed!IsRow(q) /\ lists[q].clean
    BY <1>1, <1>2, <1>3, <1>10 DEF WorkFits
  <2>2. list = lists[q].list /\ lists[q].products = Formed!Graph(list, sizes[list])
    BY <1>0, <1>4, <2>1 DEF RowFits
  <2>3. rs = {[p EXCEPT !.parts = {}] :
          p \in [list : {list}, place : 1..sizes[list], parts : {Formed!Parts}]}
    BY <1>5, <2>1, <2>2 DEF Formed!Graph
  <2> QED
    BY <2>1, <2>2, <2>3, ListRead DEF PartsRead
<1>11. WorkFits(new, r)'
  BY <1>2, <1>6, <1>8, <1>10 DEF WorkFits, Formed!IsRow
<1> QED
  BY <1>0, <1>2, <1>8, <1>9, <1>11, WorkGoesOn

LEMMA PartIsRead ==
  ASSUME FormsAssumption, QuotesInv, NEW r \in Requests, NEW k \in Formed!Parts,
         Formed!ReadPart(r, k)
  PROVE  QuotesInv'
<1>0. /\ QuoteTables /\ locks \in [Copies -> Requests \cup {None}]
      /\ \A p \in Copies : RowFits(p)
  BY QuotesParts DEF QuoteTables
<1>1. PICK w \in Formed!WorkRows : w = works[r] /\ WorkFits(w, r)
  BY WorkTyped DEF Formed!ReadPart
<1>2. /\ w.kind = "copy" /\ w.step = (IF k = "items" THEN 2 ELSE 3)
      /\ UNCHANGED <<lists, locks, sizes>>
  BY <1>1 DEF Formed!ReadPart
<1>3. PICK q \in Copies : q = w.quote
  BY DEF Formed!WorkRows
<1>3a. k \in {"items", "working"} /\ w.step \in {2, 3} /\ w.rows \in SUBSET Formed!ProductRows
  BY <1>2 DEF Formed!Parts, Formed!WorkRows
<1>4. PICK rs : rs = {Formed!WithPart(p, q, k) : p \in w.rows}
  OBVIOUS
<1>5. ASSUME NEW p \in Formed!ProductRows
      PROVE  Formed!WithPart(p, q, k) \in Formed!ProductRows
               /\ Formed!WithPart(p, q, k).list = p.list
  <2>1. PICK e : e = [p EXCEPT !.parts = @ \cup {k}]
    OBVIOUS
  <2>2. e \in Formed!ProductRows /\ e.list = p.list
    BY <2>1 DEF Formed!ProductRows
  <2>3. Formed!WithPart(p, q, k) \in {p, e}
    BY <2>1 DEF Formed!WithPart
  <2> QED
    BY <2>2, <2>3
<1>6. rs \in SUBSET Formed!ProductRows /\ \A p \in rs : p.list = w.list
  <2>1. \A p \in w.rows : p.list = w.list
    BY <1>1, <1>2 DEF WorkFits
  <2> QED
    BY <1>3a, <1>4, <1>5, <2>1
<1>7. PICK new : new = [w EXCEPT !.step = @ + 1, !.rows = rs]
  OBVIOUS
<1>8. /\ new \in Formed!WorkRows /\ new.kind = "copy" /\ new.step = w.step + 1 /\ new.quote = q
      /\ new.list = w.list /\ new.rows = rs /\ new.clean = w.clean
  <2>1. PICK kd \in {"edit", "delete", "copy"}, v \in Copies, n \in (1..MaxProducts) \cup {None},
             c \in BOOLEAN, st \in 1..4, rs0 \in SUBSET Formed!ProductRows, ls \in 0..MaxWritten :
          w = [kind |-> kd, step |-> st, quote |-> v, rows |-> rs0, size |-> n,
               list |-> ls, clean |-> c]
    BY WorkShape
  <2>2. new = [kind |-> kd, step |-> st + 1, quote |-> v, rows |-> rs, size |-> n,
               list |-> ls, clean |-> c]
    BY <1>7, <2>1
  <2>3. st + 1 \in 1..4
    BY <1>3a, <2>1
  <2> QED
    BY <1>2, <1>3, <1>6, <2>1, <2>2, <2>3 DEF Formed!WorkRows
<1>9. works' = [works EXCEPT ![r] = new]
  <2>1. works' = [works EXCEPT ![r].step = @ + 1,
                               ![r].rows = {Formed!WithPart(p, works[r].quote, k) : p \in @}]
    BY DEF Formed!ReadPart
  <2>2. works \in [Requests -> Formed!WorkRows \cup {None}] /\ works[r].step = w.step
          /\ works[r].rows = w.rows
    BY <1>0, <1>1 DEF QuoteTables
  <2>3. rs = {Formed!WithPart(p, works[r].quote, k) : p \in works[r].rows}
    BY <1>1, <1>3, <1>4
  <2>4. works' = [works EXCEPT ![r].step = w.step + 1, ![r].rows = rs]
    BY <2>1, <2>2, <2>3
  <2> QED
    BY <1>1, <1>7, <2>2, <2>4
<1>10. ASSUME w.clean
       PROVE  /\ Formed!IsRow(q) /\ lists[q].clean /\ w.list = lists[q].list
              /\ rs = [list : {w.list}, place : 1..sizes[w.list], parts :
                 {PartsRead(w.step + 1)}]
  <2>1. /\ Formed!IsRow(q) /\ lists[q].clean /\ w.list = lists[q].list
        /\ w.rows = [list : {w.list}, place : 1..sizes[w.list], parts : {PartsRead(w.step)}]
    BY <1>1, <1>2, <1>3, <1>3a, <1>10 DEF WorkFits
  <2>2. PICK L, n : L = w.list /\ n = sizes[w.list]
    OBVIOUS
  <2>3. lists[q].products = [list : {L}, place : 1..n, parts : {Formed!Parts}]
    BY <1>0, <2>1, <2>2 DEF RowFits, Formed!Graph
  <2>4. ASSUME NEW p \in w.rows
        PROVE  Formed!WithPart(p, q, k) = [p EXCEPT !.parts = @ \cup {k}]
    <3>1. p.list = L /\ p.place \in 1..n
      BY <2>1, <2>2
    <3>2. PICK x : x = [list |-> L, place |-> p.place, parts |-> Formed!Parts]
      OBVIOUS
    <3>3. x \in lists[q].products /\ x.list = p.list /\ x.place = p.place /\ k \in x.parts
      BY <2>3, <3>1, <3>2
    <3> QED
      BY <2>1, <3>3 DEF Formed!WithPart
  <2>5. rs = {[p EXCEPT !.parts = @ \cup {k}] :
                p \in [list : {L}, place : 1..n, parts : {PartsRead(w.step)}]}
    <3>1. rs = {[p EXCEPT !.parts = @ \cup {k}] : p \in w.rows}
      <4>1. rs = {Formed!WithPart(p, q, k) : p \in w.rows}
        BY <1>4
      <4> QED
        BY <2>4, <4>1, Zenon
    <3>2. w.rows = [list : {L}, place : 1..n, parts : {PartsRead(w.step)}]
      BY <2>1, <2>2
    <3> QED
      BY <3>1, <3>2
  <2>6. PartsRead(w.step) \cup {k} = PartsRead(w.step + 1)
    BY <1>2, <1>3a DEF PartsRead, Formed!Parts
  <2>7. PICK X : X = PartsRead(w.step)
    OBVIOUS
  <2>8. rs = {[p EXCEPT !.parts = @ \cup {k}] : p \in [list : {L}, place : 1..n, parts : {X}]}
    BY <2>5, <2>7
  <2>9. rs = [list : {L}, place : 1..n, parts : {X \cup {k}}]
    <3> DEFINE A == [list : {L}, place : 1..n, parts : {X}]
               B == [list : {L}, place : 1..n, parts : {X \cup {k}}]
    <3>1. rs \subseteq B
      BY <2>8
    <3>2. ASSUME NEW b \in B
          PROVE  b \in rs
      <4>1. PICK p : p = [list |-> L, place |-> b.place, parts |-> X]
        OBVIOUS
      <4>2. p \in A /\ b = [p EXCEPT !.parts = @ \cup {k}]
        BY <4>1
      <4> QED
        BY <2>8, <4>2
    <3> QED
      BY <3>1, <3>2
  <2> QED
    BY <2>1, <2>2, <2>6, <2>7, <2>9
<1>11. WorkFits(new, r)'
  BY <1>2, <1>3a, <1>6, <1>8, <1>10 DEF WorkFits, Formed!IsRow
<1> QED
  BY <1>0, <1>2, <1>8, <1>9, <1>11, WorkGoesOn

LEMMA ChangingEnds ==
  ASSUME FormsAssumption, QuoteTables, NEW r \in Requests, NEW q, Formed!EndChanging(r, q)
  PROVE  /\ works' \in [Requests -> Formed!WorkRows \cup {None}] /\ works'[r] = None
         /\ \A s \in Requests : works'[s] # None =>
              /\ works[s] # None /\ s # r
              /\ \/ works'[s] = works[s]
                 \/ works[s].kind = "copy" /\ works'[s] = [works[s] EXCEPT !.clean = FALSE]
              /\ works'[s].kind = "copy" /\ works'[s].clean => works[s].quote # q
<1>1. \A s \in Requests : works'[s] =
         IF s = r THEN None
         ELSE IF works[s] # None /\ works[s].kind = "copy" /\ works[s].quote = q
           THEN [works[s] EXCEPT !.clean = FALSE]
         ELSE works[s]
  BY DEF Formed!EndChanging
<1>2. ASSUME NEW s \in Requests, s # r
      PROVE  /\ works'[s] \in Formed!WorkRows \cup {None}
             /\ works'[s] # None =>
                  /\ works[s] # None
                  /\ \/ works'[s] = works[s]
                     \/ works[s].kind = "copy" /\ works'[s] = [works[s] EXCEPT !.clean = FALSE]
                  /\ works'[s].kind = "copy" /\ works'[s].clean => works[s].quote # q
  <2>1. works[s] \in Formed!WorkRows \cup {None}
    BY DEF QuoteTables
  <2>2. CASE works[s] # None /\ works[s].kind = "copy" /\ works[s].quote = q
    <3>1. PICK w \in Formed!WorkRows : w = works[s]
      BY <2>1, <2>2
    <3>2. PICK new : new = [w EXCEPT !.clean = FALSE]
      OBVIOUS
    <3>3. new \in Formed!WorkRows /\ ~new.clean /\ works'[s] = new
      BY <1>1, <1>2, <2>2, <3>1, <3>2 DEF Formed!WorkRows
    <3> QED
      BY <2>2, <3>1, <3>2, <3>3
  <2>3. CASE ~(works[s] # None /\ works[s].kind = "copy" /\ works[s].quote = q)
    BY <1>1, <1>2, <2>1, <2>3
  <2> QED
    BY <2>2, <2>3
<1>3. works' \in [Requests -> Formed!WorkRows \cup {None}]
  BY <1>1, <1>2 DEF Formed!EndChanging
<1> QED
  BY <1>1, <1>2, <1>3

(* A new list of products. *)
LEMMA ListWritten ==
  ASSUME FormsAssumption, QuoteTables, NEW q \in Copies, NEW size \in 1..MaxProducts,
         Formed!Written < MaxWritten, sizes' = Append(sizes, size)
  PROVE  /\ sizes' \in Seq(1..MaxProducts) /\ Len(sizes') <= MaxWritten
         /\ Len(sizes') >= Len(sizes)
         /\ \A i \in 1..Len(sizes) : sizes'[i] = sizes[i]
         /\ Formed!Quotation(Formed!Written + 1, Formed!Graph(Formed!Written + 1, size),
            TRUE) \in Formed!QuoteRows
         /\ lists'[q] =
            Formed!Quotation(Formed!Written + 1, Formed!Graph(Formed!Written + 1, size),
              TRUE) => RowFits(q)'
<1>1. Formed!Written = Len(sizes) /\ Len(sizes) \in Nat /\ sizes \in Seq(1..MaxProducts)
      /\ MaxWritten \in Nat /\ MaxProducts \in Nat
  BY WrittenIsLen, FormsFacts DEF QuoteTables
<1>2. /\ sizes' \in Seq(1..MaxProducts) /\ Len(sizes') = Len(sizes) + 1
      /\ \A i \in 1..Len(sizes) : sizes'[i] = sizes[i]
      /\ sizes'[Len(sizes) + 1] = size
  BY <1>1
<1>3. PICK n \in 1..MaxWritten : n = Formed!Written + 1
  BY <1>1
<1>4. Formed!Graph(n, size) \in SUBSET Formed!ProductRows
        /\ \A p \in Formed!Graph(n, size) : p.list = n
  BY <1>1, <1>3 DEF Formed!Graph, Formed!ProductRows
<1>5. PICK row : row = Formed!Quotation(n, Formed!Graph(n, size), TRUE)
  OBVIOUS
<1>6. row \in Formed!QuoteRows /\ row.list = n /\ row.products = Formed!Graph(n, size) /\ row.clean
  BY <1>1, <1>3, <1>4, <1>5 DEF Formed!Quotation, Formed!QuoteRows
<1>7. ASSUME lists'[q] = row
      PROVE  RowFits(q)'
  <2>1. n \in 1..Len(sizes') /\ sizes'[n] = size
    BY <1>1, <1>2, <1>3
  <2>2. row.products = [list : {n}, place : 1..sizes'[n], parts : {Formed!Parts}]
    BY <1>6, <2>1 DEF Formed!Graph
  <2> QED
    BY <1>4, <1>6, <1>7, <2>1, <2>2 DEF RowFits, Formed!Graph
<1>8. Len(sizes') <= MaxWritten /\ Len(sizes') >= Len(sizes)
  BY <1>1, <1>2
<1>9. row = Formed!Quotation(Formed!Written + 1, Formed!Graph(Formed!Written + 1, size), TRUE)
  BY <1>3, <1>5
<1> QED
  BY <1>2, <1>6, <1>7, <1>8, <1>9

LEMMA QuoteAdded ==
  ASSUME FormsAssumption, QuotesInv, NEW q \in Copies, NEW size \in 1..MaxProducts,
         Formed!AddQuote(q, size)
  PROVE  QuotesInv'
<1>0. /\ QuoteTables /\ locks \in [Copies -> Requests \cup {None}]
      /\ works \in [Requests -> Formed!WorkRows \cup {None}]
      /\ lists \in [Copies -> Formed!QuoteRows \cup {None, Gone}]
  BY QuotesParts DEF QuoteTables
<1>1. PICK row : row = Formed!Quotation(Formed!Written + 1,
           Formed!Graph(Formed!Written + 1, size), TRUE)
  OBVIOUS
<1>2. /\ lists[q] = None /\ Formed!Written < MaxWritten /\ sizes' = Append(sizes, size)
      /\ lists' = [lists EXCEPT ![q] = row] /\ UNCHANGED <<locks, works>>
  BY <1>1 DEF Formed!AddQuote
<1>3. /\ sizes' \in Seq(1..MaxProducts) /\ Len(sizes') <= MaxWritten
      /\ Len(sizes') >= Len(sizes)
      /\ \A i \in 1..Len(sizes) : sizes'[i] = sizes[i]
      /\ row \in Formed!QuoteRows
      /\ lists'[q] = row => RowFits(q)'
  BY <1>0, <1>1, <1>2, ListWritten
<1>4. RowFits(q)'
  BY <1>0, <1>2, <1>3
<1>5. ~Formed!IsRow(q)
  BY <1>2 DEF Formed!IsRow
<1>6. ASSUME NEW s \in Requests, works'[s] # None
      PROVE  /\ works[s].kind = "edit" => works[s].quote # q
             /\ works[s].kind = "copy" /\ works[s].clean => works[s].quote # q
  BY <1>2, <1>5, <1>6, WorkTyped DEF WorkFits
<1> QED
  BY <1>0, <1>2, <1>3, <1>4, <1>6, QuotationWritten

LEMMA QuoteSaved ==
  ASSUME FormsAssumption, QuotesInv, NEW r \in Requests, Formed!SaveQuote(r)
  PROVE  QuotesInv'
<1>0. /\ QuoteTables /\ locks \in [Copies -> Requests \cup {None}]
      /\ works \in [Requests -> Formed!WorkRows \cup {None}]
      /\ lists \in [Copies -> Formed!QuoteRows \cup {None, Gone}]
      /\ \A p \in Copies : RowFits(p)
  BY QuotesParts DEF QuoteTables
<1>1. PICK w \in Formed!WorkRows : w = works[r] /\ WorkFits(w, r)
  BY WorkTyped DEF Formed!SaveQuote
<1>1a. works[r] # None
  BY DEF Formed!SaveQuote
<1>2. PICK q \in Copies : q = w.quote
  BY DEF Formed!WorkRows
<1>3. /\ w.kind = "edit" /\ w.step = 2 /\ Formed!IsRow(q) /\ Formed!EndChanging(r, q)
      /\ locks' = [locks EXCEPT ![q] = None]
      /\ locks[q] = r /\ w.rows = lists[q].products
  BY <1>1, <1>2 DEF Formed!SaveQuote, WorkFits
<1>4. /\ works' \in [Requests -> Formed!WorkRows \cup {None}]
      /\ \A s \in Requests : works'[s] # None =>
           /\ works[s] # None /\ s # r
           /\ \/ works'[s] = works[s]
              \/ works[s].kind = "copy" /\ works'[s] = [works[s] EXCEPT !.clean = FALSE]
           /\ works'[s].kind = "copy" /\ works'[s].clean => works[s].quote # q
  BY <1>0, <1>3, ChangingEnds
<1>5. ASSUME NEW s \in Requests, works'[s] # None, works[s].kind = "edit"
      PROVE  works[s].quote # q /\ locks'[works[s].quote] = locks[works[s].quote]
  <2>1. works[s] # None /\ s # r
    BY <1>4, <1>5
  <2>2. works[s].quote \in Copies /\ locks[works[s].quote] = s
    BY <1>5, <2>1, WorkTyped DEF WorkFits
  <2> QED
    BY <1>0, <1>3, <2>1, <2>2
<1>6. locks' \in [Copies -> Requests \cup {None}]
  BY <1>0, <1>3
<1>7. ASSUME UNCHANGED <<lists, sizes>>
      PROVE  QuotesInv'
  <2>1. PICK row \in Formed!QuoteRows \cup {None, Gone} : row = lists[q]
    BY <1>0
  <2>2. lists' = [lists EXCEPT ![q] = row] /\ RowFits(q)'
    BY <1>0, <1>7, <2>1 DEF RowFits, Formed!IsRow
  <2>3. sizes' \in Seq(1..MaxProducts) /\ Len(sizes') <= MaxWritten /\ Len(sizes) \in Nat
    BY <1>0, <1>7 DEF QuoteTables
  <2>4. Len(sizes') >= Len(sizes) /\ \A i \in 1..Len(sizes) : sizes'[i] = sizes[i]
    BY <1>7, <2>3
  <2> QED
    BY <1>4, <1>5, <1>6, <2>2, <2>3, <2>4, QuotationWritten
<1>8. ASSUME w.size # None, Formed!Written < MaxWritten, sizes' = Append(sizes, w.size),
             lists' = [lists EXCEPT ![q] =
               Formed!Quotation(Formed!Written + 1,
                 (lists[q].products \ w.rows) \cup Formed!Graph(Formed!Written + 1, w.size),
                         TRUE)]
      PROVE  QuotesInv'
  <2>1. PICK size \in 1..MaxProducts : size = w.size
    BY <1>8 DEF Formed!WorkRows
  <2>2. PICK row : row =
               Formed!Quotation(Formed!Written + 1, Formed!Graph(Formed!Written + 1, size), TRUE)
    OBVIOUS
  <2>3. (lists[q].products \ w.rows) \cup Formed!Graph(Formed!Written + 1, size) =
          Formed!Graph(Formed!Written + 1, size)
    BY <1>3
  <2>4. lists' = [lists EXCEPT ![q] = row] /\ sizes' = Append(sizes, size)
    BY <1>8, <2>1, <2>2, <2>3
  <2>5. /\ sizes' \in Seq(1..MaxProducts) /\ Len(sizes') <= MaxWritten
        /\ Len(sizes') >= Len(sizes)
        /\ \A i \in 1..Len(sizes) : sizes'[i] = sizes[i]
        /\ row \in Formed!QuoteRows
        /\ lists'[q] = row => RowFits(q)'
    BY <1>0, <1>8, <2>2, <2>4, ListWritten
  <2>6. RowFits(q)'
    BY <1>0, <2>4, <2>5
  <2> QED
    BY <1>4, <1>5, <1>6, <2>4, <2>5, <2>6, QuotationWritten
<1> QED
  BY <1>1, <1>2, <1>7, <1>8 DEF Formed!SaveQuote

(* A request that ends and leaves quotations as they are. *)
LEMMA WorkEnds ==
  ASSUME FormsAssumption, QuotesInv, NEW r \in Requests, works[r] # None,
         works' = [works EXCEPT ![r] = None],
         UNCHANGED <<lists, sizes>>, locks' \in [Copies -> Requests \cup {None}],
         \A q \in Copies : locks[q] # r => locks'[q] = locks[q]
  PROVE  QuotesInv'
<1>0. /\ QuoteTables /\ works \in [Requests -> Formed!WorkRows \cup {None}]
      /\ lists \in [Copies -> Formed!QuoteRows \cup {None, Gone}]
      /\ \A p \in Copies : RowFits(p)
  BY QuotesParts DEF QuoteTables
<1>1. PICK q \in Copies : q = works[r].quote
  BY WorkTyped
<1>2. PICK row \in Formed!QuoteRows \cup {None, Gone} : row = lists[q]
  BY <1>0
<1>3. lists' = [lists EXCEPT ![q] = row] /\ RowFits(q)'
  BY <1>0, <1>2 DEF RowFits, Formed!IsRow
<1>4. sizes' \in Seq(1..MaxProducts) /\ Len(sizes') <= MaxWritten /\ Len(sizes) \in Nat
  BY <1>0 DEF QuoteTables
<1>5. Len(sizes') >= Len(sizes) /\ \A i \in 1..Len(sizes) : sizes'[i] = sizes[i]
  BY <1>4
<1>6. works' \in [Requests -> Formed!WorkRows \cup {None}]
  BY <1>0
<1>7. ASSUME NEW s \in Requests, works'[s] # None
      PROVE  /\ works[s] # None /\ works'[s] = works[s]
             /\ works[s].kind = "edit" => locks'[works[s].quote] = locks[works[s].quote]
  <2>1. s # r /\ works[s] # None /\ works'[s] = works[s]
    BY <1>0, <1>7
  <2>2. works[s].quote \in Copies /\ WorkFits(works[s], s)
    BY <2>1, WorkTyped
  <2> QED
    BY <2>1, <2>2 DEF WorkFits
<1> QED
  BY <1>2, <1>3, <1>4, <1>5, <1>6, <1>7, QuotationWritten

LEMMA QuoteDeleted ==
  ASSUME FormsAssumption, QuotesInv, NEW r \in Requests, Formed!DeleteQuote(r)
  PROVE  QuotesInv'
<1>0. /\ QuoteTables /\ locks \in [Copies -> Requests \cup {None}]
      /\ works \in [Requests -> Formed!WorkRows \cup {None}]
      /\ lists \in [Copies -> Formed!QuoteRows \cup {None, Gone}]
  BY QuotesParts DEF QuoteTables
<1>1. works[r] # None /\ UNCHANGED <<locks, sizes>>
  BY DEF Formed!DeleteQuote
<1>2. PICK q \in Copies : q = works[r].quote
  BY <1>1, WorkTyped
<1>3. locks[q] = None
  BY <1>2 DEF Formed!DeleteQuote
<1>4. ASSUME lists' = [lists EXCEPT ![q] = Gone], Formed!EndChanging(r, q)
      PROVE  QuotesInv'
  <2>1. /\ works' \in [Requests -> Formed!WorkRows \cup {None}]
        /\ \A s \in Requests : works'[s] # None =>
             /\ works[s] # None /\ s # r
             /\ \/ works'[s] = works[s]
                \/ works[s].kind = "copy" /\ works'[s] = [works[s] EXCEPT !.clean = FALSE]
             /\ works'[s].kind = "copy" /\ works'[s].clean => works[s].quote # q
    BY <1>0, <1>4, ChangingEnds
  <2>2. ASSUME NEW s \in Requests, works'[s] # None, works[s].kind = "edit"
        PROVE  works[s].quote # q
    <3>1. works[s] # None /\ s # None
      BY <2>1, <2>2, FormsFacts
    <3>2. locks[works[s].quote] = s
      BY <2>2, <3>1, WorkTyped DEF WorkFits
    <3> QED
      BY <1>3, <3>1, <3>2
  <2>3. RowFits(q)'
    BY <1>0, <1>4 DEF RowFits, Formed!IsRow
  <2>4. sizes' \in Seq(1..MaxProducts) /\ Len(sizes') <= MaxWritten /\ Len(sizes) \in Nat
    BY <1>0, <1>1 DEF QuoteTables
  <2>5. Len(sizes') >= Len(sizes) /\ \A i \in 1..Len(sizes) : sizes'[i] = sizes[i]
    BY <1>1, <2>4
  <2> QED
    BY <1>0, <1>1, <1>4, <2>1, <2>2, <2>3, <2>4, <2>5, QuotationWritten
<1>5. ASSUME UNCHANGED lists, Formed!End(r)
      PROVE  QuotesInv'
  BY <1>0, <1>1, <1>5, WorkEnds DEF Formed!End
<1> QED
  BY <1>2, <1>4, <1>5 DEF Formed!DeleteQuote

LEMMA CopyWritten ==
  ASSUME FormsAssumption, QuotesInv, NEW r \in Requests, NEW q \in Copies,
         Formed!WriteCopy(r, q)
  PROVE  QuotesInv'
<1>0. /\ QuoteTables /\ locks \in [Copies -> Requests \cup {None}]
      /\ works \in [Requests -> Formed!WorkRows \cup {None}]
      /\ lists \in [Copies -> Formed!QuoteRows \cup {None, Gone}]
      /\ \A p \in Copies : RowFits(p)
  BY QuotesParts DEF QuoteTables
<1>1. PICK w \in Formed!WorkRows : w = works[r] /\ WorkFits(w, r)
  BY WorkTyped DEF Formed!WriteCopy
<1>2. PICK row : row = Formed!Quotation(w.list, w.rows, w.clean)
  OBVIOUS
<1>3. /\ w.kind = "copy" /\ w.step = 4 /\ lists[q] = None
      /\ lists' = [lists EXCEPT ![q] = row] /\ works' = [works EXCEPT ![r] = None]
      /\ UNCHANGED <<locks, sizes>>
  BY <1>1, <1>2 DEF Formed!WriteCopy, Formed!End
<1>4. /\ row \in Formed!QuoteRows /\ row.list = w.list /\ row.products = w.rows
         /\ row.clean = w.clean
      /\ w.rows \in SUBSET Formed!ProductRows /\ w.quote \in Copies
  BY <1>2 DEF Formed!Quotation, Formed!QuoteRows, Formed!WorkRows
<1>5. /\ \A p \in w.rows : p.list = w.list
      /\ w.clean => /\ Formed!IsRow(w.quote) /\ lists[w.quote].clean /\ w.list = lists[w.quote].list
                    /\ w.rows =
                       [list : {w.list}, place : 1..sizes[w.list], parts : {PartsRead(4)}]
  BY <1>1, <1>3 DEF WorkFits
<1>6. w.clean => w.list \in 1..Len(sizes) /\ w.rows = Formed!Graph(w.list, sizes[w.list])
  BY <1>0, <1>4, <1>5 DEF RowFits, Formed!Graph, PartsRead
<1>7. RowFits(q)'
  BY <1>0, <1>3, <1>4, <1>5, <1>6 DEF RowFits, Formed!Graph
<1>8. ~Formed!IsRow(q)
  BY <1>3 DEF Formed!IsRow
<1>9. ASSUME NEW s \in Requests, works'[s] # None
      PROVE  /\ works[s] # None /\ works'[s] = works[s]
             /\ works[s].kind = "edit" => works[s].quote # q
             /\ works[s].kind = "copy" /\ works[s].clean => works[s].quote # q
  <2>1. works[s] # None /\ works'[s] = works[s]
    BY <1>0, <1>3, <1>9
  <2> QED
    BY <1>8, <2>1, WorkTyped DEF WorkFits
<1>10. sizes' \in Seq(1..MaxProducts) /\ Len(sizes') <= MaxWritten /\ Len(sizes) \in Nat
  BY <1>0, <1>3 DEF QuoteTables
<1>11. Len(sizes') >= Len(sizes) /\ \A i \in 1..Len(sizes) : sizes'[i] = sizes[i]
  BY <1>3, <1>10
<1>12. works' \in [Requests -> Formed!WorkRows \cup {None}]
  BY <1>0, <1>3
<1> QED
  BY <1>0, <1>3, <1>4, <1>7, <1>9, <1>10, <1>11, <1>12, QuotationWritten

LEMMA QuotesInvStep ==
  ASSUME FormsAssumption, QuotesInv, [Formed!QuotesNext]_listVars
  PROVE  QuotesInv'
<1>1. CASE \E q \in Copies, n \in 1..MaxProducts : Formed!AddQuote(q, n)
  BY <1>1, QuoteAdded
<1>2. CASE \E r \in Requests, q \in Copies :
             \/ \E n \in (1..MaxProducts) \cup {None} : Formed!OpenQuote(r, q, n)
             \/ Formed!CollectQuote(r, q) \/ Formed!ReadHeader(r, q) \/ Formed!WriteCopy(r, q)
  BY <1>2, ListsOpened, CopyWritten
<1>3. ASSUME NEW r \in Requests, Formed!GiveUp(r)
      PROVE  QuotesInv'
  <2>1. /\ works[r] # None /\ works' = [works EXCEPT ![r] = None]
        /\ locks' = [q \in Copies |-> IF locks[q] = r THEN None ELSE locks[q]]
        /\ UNCHANGED <<lists, sizes>>
    BY <1>3 DEF Formed!GiveUp, Formed!End
  <2>2. locks' \in [Copies -> Requests \cup {None}]
    BY <2>1, QuotesParts DEF QuoteTables
  <2> QED
    BY <2>1, <2>2, WorkEnds
<1>4. CASE \/ \E r \in Requests : \/ Formed!ClearProducts(r) \/ Formed!SaveQuote(r)
                                     \/ Formed!DeleteQuote(r)
                                  \/ Formed!ReadProducts(r) \/ Formed!GiveUp(r)
           \/ \E r \in Requests, k \in Formed!Parts : Formed!ReadPart(r, k)
  BY <1>3, <1>4, ProductsCleared, QuoteSaved, QuoteDeleted, ProductsRead, PartIsRead
<1>5. CASE UNCHANGED listVars
  BY <1>5
     DEF listVars, QuotesInv, Formed!QuotationsWhole, WorkFits,
         Formed!IsRow
<1> QED
  BY <1>1, <1>2, <1>4, <1>5 DEF Formed!QuotesNext

-----------------------------------------------------------------------------
(* What an installation is set up with: the rows of its catalogue.          *)
Filled == {c \in Setup!CatalogueCodes : catalogue[c] # None}

LEMMA SetupFacts ==
  ASSUME SetupAssumption
  PROVE  /\ None \notin Setup!States /\ None \notin Setup!FoundedRows /\ None \notin Setup!AdminRows
         /\ None # "on" /\ None # "off"
BY DEF SetupAssumption, Setup!SetupConstants, Setup!States

(* What the proofs about Installation need beside its properties: that a    *)
(* company which has signed up found a catalogue that no start of a         *)
(* container adds rows to.                                                  *)

SetupInv ==
  /\ catalogue \in [Setup!CatalogueCodes -> Setup!States \cup {None}]
  /\ schedule \in [Setup!Tasks -> Setup!States \cup {None}]
  /\ founded \in Setup!FoundedRows \cup {None} /\ admin \in Setup!AdminRows \cup {None}
  /\ halved \in BOOLEAN
  /\ founded # None => \A c \in SalesCodes : catalogue[c] # None
  /\ Setup!InstallationHolds

Early == {o \in Setup!Own(numbered) : o.number < FirstNumber}

SamplesInv ==
  /\ numbered \in SUBSET Setup!OrderRows /\ Setup!IsFiniteSet(numbered)
  /\ lost \in SUBSET Setup!OrderRows /\ Setup!IsFiniteSet(lost)
  /\ \A o \in numbered, p \in numbered : o.number = p.number => o = p
  /\ \A o \in numbered : IF o.seeded THEN o = Setup!Seeded
                          ELSE o.number <= Setup!Cardinality(Early) \/ o.number > FirstNumber
  /\ Setup!Cardinality(Early) < FirstNumber
  /\ \A o \in lost : o.number > FirstNumber
  /\ products \subseteq {"sample", "file"}
  /\ products = {"sample", "file"} => crossed

LEMMA SetupInvInit ==
  ASSUME SetupAssumption, Setup!Init
  PROVE  SetupInv
BY SetupFacts
   DEF Setup!Init, SetupInv, Setup!InstallationHolds, Setup!States,
       Setup!Defaults

LEMMA CatalogueInstalled ==
  ASSUME SetupAssumption, SetupInv
  PROVE  /\ Setup!Installed \in [Setup!CatalogueCodes -> Setup!States \cup {None}]
         /\ LET rows_ == {c \in Setup!CatalogueCodes : Setup!Installed[c] # None} IN
            rows_ = Setup!CatalogueCodes \/ (halved /\ rows_ = SalesCodes)
<1>1. Filled \in {{}, Setup!CatalogueCodes} \/ (halved /\ Filled = SalesCodes)
  BY DEF SetupInv, Setup!InstallationHolds, Filled
<1>2. CASE Setup!On(catalogue) # {}
  <2>1. Setup!Installed = catalogue
    BY <1>2 DEF Setup!Installed
  <2>2. Filled # {}
    BY <1>2, SetupFacts DEF Setup!On, Filled
  <2> QED
    BY <1>1, <2>1, <2>2 DEF SetupInv, Filled
<1>3. CASE Setup!On(catalogue) = {}
  <2>1. Setup!Installed =
          [c \in Setup!CatalogueCodes |-> IF catalogue[c] = None THEN "on" ELSE catalogue[c]]
    BY <1>3 DEF Setup!Installed
  <2>2. \A c \in Setup!CatalogueCodes : Setup!Installed[c] # None
    BY <2>1, SetupFacts
  <2>3. Setup!Installed \in [Setup!CatalogueCodes -> Setup!States \cup {None}]
    BY <2>1 DEF SetupInv, Setup!States
  <2> QED
    BY <2>2, <2>3
<1> QED
  BY <1>2, <1>3

LEMMA Bootstrapped ==
  ASSUME SetupAssumption, SetupInv, Setup!Bootstrap
  PROVE  SetupInv'
<1>1. /\ catalogue' = [c \in Setup!CatalogueCodes |-> IF c \in SalesCodes THEN "on" ELSE catalogue[c]]
      /\ first' = SalesCodes \cup (IF first = None THEN {} ELSE first)
      /\ admin' = [own |-> "on", other |-> FALSE, flag |-> TRUE, active |-> TRUE]
      /\ schedule' = Setup!Defaults /\ switched' = {} /\ founded' = founded
      /\ halved' = (halved \/ \A c \in Setup!CatalogueCodes : catalogue[c] = None)
  BY DEF Setup!Bootstrap
<1>2. SalesCodes \subseteq Setup!CatalogueCodes
        /\ catalogue \in [Setup!CatalogueCodes -> Setup!States \cup {None}]
  BY DEF SetupInv, Setup!CatalogueCodes
<1>3. Filled' = Filled \cup SalesCodes
  BY <1>1, <1>2, SetupFacts DEF Filled
<1>4. Filled' \in {{}, Setup!CatalogueCodes} \/ (halved' /\ Filled' = SalesCodes)
  <2>1. Filled \in {{}, Setup!CatalogueCodes} \/ (halved /\ Filled = SalesCodes)
    BY DEF SetupInv, Setup!InstallationHolds, Filled
  <2>2. Filled = {} => halved'
    BY <1>1 DEF Filled
  <2> QED
    BY <1>1, <1>2, <1>3, <2>1, <2>2
<1>5. catalogue' \in [Setup!CatalogueCodes -> Setup!States \cup {None}]
  BY <1>1, <1>2 DEF Setup!States
<1>6. founded # None => Filled' = Filled
  <2>1. founded # None => SalesCodes \subseteq Filled
    BY <1>2 DEF SetupInv, Filled
  <2> QED
    BY <1>3, <2>1
<1>7. schedule' \in [Setup!Tasks -> Setup!States \cup {None}] /\ admin' \in Setup!AdminRows
        /\ halved' \in BOOLEAN
  BY <1>1 DEF SetupInv, Setup!Defaults, Setup!States, Setup!AdminRows
<1>8. founded' # None => /\ \A c \in SalesCodes : catalogue'[c] # None
                         /\ founded'.links \cup founded'.off = Filled'
                         /\ founded'.links \cap founded'.off = {}
  <2>1. founded # None => founded.links \cup founded.off = Filled
          /\ founded.links \cap founded.off = {}
    BY DEF SetupInv, Setup!InstallationHolds, Filled
  <2>2. \A c \in SalesCodes : catalogue'[c] # None
    BY <1>1, <1>2, SetupFacts
  <2> QED
    BY <1>1, <1>6, <2>1, <2>2
<1>9. SalesCodes \subseteq first'
  BY <1>1
<1> QED
  BY <1>1, <1>4, <1>5, <1>7, <1>8, <1>9
     DEF SetupInv, Setup!InstallationHolds, Filled

LEMMA CompanyFounded ==
  ASSUME SetupAssumption, SetupInv, Setup!Found
  PROVE  SetupInv'
<1>1. /\ catalogue' = Setup!Installed
      /\ founded' = [links |-> Setup!On(Setup!Installed),
         off |-> {c \in Setup!CatalogueCodes : Setup!Installed[c] = "off"}]
      /\ UNCHANGED <<first, admin, schedule, switched, halved>>
  BY DEF Setup!Found
<1>2. /\ catalogue' \in [Setup!CatalogueCodes -> Setup!States \cup {None}]
      /\ Filled' = Setup!CatalogueCodes \/ (halved /\ Filled' = SalesCodes)
  BY <1>1, CatalogueInstalled DEF Filled
<1>3. /\ founded' \in Setup!FoundedRows /\ founded'.links \cup founded'.off = Filled'
      /\ founded'.links \cap founded'.off = {}
  <2>1. /\ founded'.links = {c \in Setup!CatalogueCodes : catalogue'[c] = "on"}
        /\ founded'.off = {c \in Setup!CatalogueCodes : catalogue'[c] = "off"}
        /\ founded' \in Setup!FoundedRows
    BY <1>1 DEF Setup!FoundedRows, Setup!On
  <2>2. \A c \in Setup!CatalogueCodes : catalogue'[c] \in {"on", "off", None}
    BY <1>2 DEF Setup!States
  <2> QED
    BY <2>1, <2>2, SetupFacts DEF Filled
<1>4. \A c \in SalesCodes : catalogue'[c] # None
  BY <1>2 DEF Filled, Setup!CatalogueCodes
<1> QED
  BY <1>1, <1>2, <1>3, <1>4 DEF SetupInv, Setup!InstallationHolds, Filled

LEMMA AdminChanged ==
  ASSUME SetupAssumption, SetupInv,
         (\E co \in BOOLEAN : Setup!AssignRole(co)) \/ Setup!RevokeRole \/ Setup!SwitchMember
  PROVE  SetupInv'
<1>1. /\ UNCHANGED <<catalogue, coOwner, first, founded, schedule, switched, halved>>
      /\ admin # None
  BY DEF Setup!AssignRole, Setup!RevokeRole, Setup!SwitchMember, Setup!ChangeAdmin
<1>2. PICK a \in Setup!AdminRows : a = admin
  BY <1>1 DEF SetupInv
<1>3. /\ a.own \in Setup!States /\ a.other \in BOOLEAN /\ a.flag \in BOOLEAN /\ a.active \in BOOLEAN
      /\ a = [own |-> a.own, other |-> a.other, flag |-> a.flag, active |-> a.active]
  BY DEF Setup!AdminRows
<1>4. ~(a.own = "on" /\ a.other) /\ (a.flag => a.own = "on" \/ a.other)
        /\ SalesCodes \subseteq first
  BY <1>1, <1>2 DEF SetupInv, Setup!InstallationHolds
<1>5. \E own_ \in Setup!States, other \in BOOLEAN, flag \in BOOLEAN, active \in BOOLEAN :
        /\ admin' = [own |-> own_, other |-> other, flag |-> flag, active |-> active]
        /\ ~(own_ = "on" /\ other) /\ (flag => own_ = "on" \/ other)
  <2>1. CASE \E co \in BOOLEAN : Setup!AssignRole(co)
    <3>1. PICK co \in BOOLEAN :
            admin' = [own |-> "off", other |-> TRUE, flag |-> co, active |-> a.active]
      BY <1>2, <1>3, <2>1 DEF Setup!AssignRole, Setup!ChangeAdmin
    <3> QED
      BY <1>3, <3>1 DEF Setup!States
  <2>2. CASE Setup!RevokeRole
    <3>1. \/ admin' = [own |-> "off", other |-> a.other, flag |-> FALSE, active |-> a.active]
          \/ admin' = [own |-> a.own, other |-> FALSE, flag |-> FALSE, active |-> a.active]
      BY <1>2, <1>3, <2>2 DEF Setup!RevokeRole, Setup!ChangeAdmin
    <3>2. "off" \in Setup!States /\ "off" # "on" /\ FALSE \in BOOLEAN
      BY DEF Setup!States
    <3> QED
      BY <1>3, <3>1, <3>2, Zenon
  <2>3. CASE Setup!SwitchMember
    <3>1. admin' = [own |-> a.own, other |-> a.other, flag |-> a.flag, active |-> ~a.active]
      BY <1>2, <1>3, <2>3 DEF Setup!SwitchMember, Setup!ChangeAdmin
    <3>2. (~a.active) \in BOOLEAN
      BY Zenon
    <3> QED
      BY <1>3, <1>4, <3>1, <3>2, Zenon
  <2> QED
    BY <2>1, <2>2, <2>3
<1>6. admin' \in Setup!AdminRows /\ ~(admin'.own = "on" /\ admin'.other)
      /\ (admin'.flag => admin'.own = "on" \/ admin'.other)
  BY <1>5 DEF Setup!AdminRows
<1> QED
  BY <1>1, <1>4, <1>6 DEF SetupInv, Setup!InstallationHolds

LEMMA Purged ==
  ASSUME SetupAssumption, SetupInv, Setup!PurgeAll \/ Setup!Flush
  PROVE  SetupInv'
<1>1. founded' = None /\ admin' = None
  BY DEF Setup!PurgeAll, Setup!Flush
<1>2. CASE Setup!PurgeAll
  <2>1. /\ catalogue' \in {catalogue, Setup!Installed} /\ UNCHANGED <<schedule, switched, halved>>
    BY <1>2 DEF Setup!PurgeAll
  <2>2. Filled' \in {{}, Setup!CatalogueCodes} \/ (halved /\ Filled' = SalesCodes)
    BY <2>1, CatalogueInstalled DEF Filled, SetupInv, Setup!InstallationHolds
  <2>3. catalogue' \in [Setup!CatalogueCodes -> Setup!States \cup {None}]
    BY <2>1, CatalogueInstalled DEF SetupInv
  <2> QED
    BY <1>1, <2>1, <2>2, <2>3 DEF SetupInv, Setup!InstallationHolds, Filled
<1>3. CASE Setup!Flush
  BY <1>1, <1>3 DEF Setup!Flush, SetupInv, Setup!InstallationHolds
<1> QED
  BY <1>2, <1>3

LEMMA SetupSwitched ==
  ASSUME SetupAssumption, SetupInv,
         (\E t \in Setup!Tasks : Setup!SwitchTask(t))
           \/ (\E c \in Setup!CatalogueCodes : Setup!SwitchCode(c))
  PROVE  SetupInv'
<1>1. CASE \E t \in Setup!Tasks : Setup!SwitchTask(t)
  <2>1. PICK t \in Setup!Tasks : Setup!SwitchTask(t)
    BY <1>1
  <2>2. PICK s \in Setup!States : schedule' = [schedule EXCEPT ![t] = s]
    BY <2>1 DEF Setup!SwitchTask, Setup!States
  <2>3. /\ schedule' \in [Setup!Tasks -> Setup!States \cup {None}] /\ switched' = switched \cup {t}
        /\ \A u \in Setup!Tasks \ {t} : schedule'[u] = schedule[u]
        /\ UNCHANGED <<catalogue, coOwner, first, admin, founded, halved>>
    BY <2>1, <2>2 DEF Setup!SwitchTask, SetupInv
  <2> QED
    BY <2>3 DEF SetupInv, Setup!InstallationHolds
<1>2. CASE \E c \in Setup!CatalogueCodes : Setup!SwitchCode(c)
  <2>1. PICK c \in Setup!CatalogueCodes : Setup!SwitchCode(c)
    BY <1>2
  <2>2. PICK s \in Setup!States : catalogue' = [catalogue EXCEPT ![c] = s]
    BY <2>1 DEF Setup!SwitchCode, Setup!States
  <2>3. /\ catalogue' \in [Setup!CatalogueCodes -> Setup!States \cup {None}]
        /\ \A d \in Setup!CatalogueCodes : (catalogue'[d] # None) = (catalogue[d] # None)
        /\ UNCHANGED <<coOwner, first, admin, founded, schedule, switched, halved>>
    BY <2>1, <2>2, SetupFacts DEF Setup!SwitchCode, SetupInv, Setup!States
  <2>4. Filled' = Filled
    BY <2>3 DEF Filled
  <2>5. \A d \in SalesCodes : (catalogue'[d] # None) = (catalogue[d] # None)
    BY <2>3 DEF Setup!CatalogueCodes
  <2> QED
    BY <2>3, <2>4, <2>5 DEF SetupInv, Setup!InstallationHolds, Filled
<1> QED
  BY <1>1, <1>2

LEMMA SetupInvStep ==
  ASSUME SetupAssumption, SetupInv, [Setup!Next]_setupVars
  PROVE  SetupInv'
<1>1. CASE UNCHANGED setupVars
  BY <1>1 DEF setupVars, SetupInv, Setup!InstallationHolds
<1> QED
  BY <1>1, Bootstrapped, CompanyFounded, AdminChanged, Purged, SetupSwitched
     DEF Setup!Next

-----------------------------------------------------------------------------
(* The rows that commands put beside those of people.                       *)
LEMMA SampleFinite ==
  ASSUME NEW S
  PROVE  Setup!Cardinality(S) = Cardinality(S) /\ (Setup!IsFiniteSet(S) <=> IsFiniteSet(S))
BY DEF Setup!Cardinality, Cardinality, Setup!IsFiniteSet, IsFiniteSet

SeedsFit ==
  /\ numbered \in SUBSET Setup!OrderRows /\ IsFiniteSet(numbered)
  /\ lost \in SUBSET Setup!OrderRows /\ IsFiniteSet(lost)
  /\ \A o \in numbered, p \in numbered : o.number = p.number => o = p
  /\ \A o \in numbered : IF o.seeded THEN o = Setup!Seeded
                          ELSE o.number <= Cardinality(Early) \/ o.number > FirstNumber
  /\ Cardinality(Early) < FirstNumber
  /\ \A o \in lost : o.number > FirstNumber
  /\ products \subseteq {"sample", "file"}
  /\ products = {"sample", "file"} => crossed

LEMMA SampleFacts ==
  ASSUME SetupAssumption
  PROVE  FirstNumber \in Nat /\ MaxOrders \in Nat /\ MaxOrders < FirstNumber
BY DEF SetupAssumption, Setup!SampleConstants

LEMMA SeedsFitInit ==
  ASSUME SetupAssumption, Setup!SampleInit
  PROVE  SeedsFit
<1>1. numbered = {} /\ lost = {} /\ products = {} /\ Early = {}
  BY DEF Setup!SampleInit, Early, Setup!Own
<1> QED
  BY <1>1, SampleFacts, FS_EmptySet DEF SeedsFit

(* A number that no order has, and that is after all of them. *)
LEMMA NumberedLast ==
  ASSUME SeedsFit
  PROVE  LET last_ == Setup!Max({o.number : o \in numbered} \cup {0}) IN
         /\ last_ \in Nat /\ \A o \in numbered : o.number <= last_
         /\ last_ = 0 \/ \E o \in numbered : o.number = last_
<1> DEFINE S == {o.number : o \in numbered} \cup {0}
           f == [o \in numbered |-> o.number]
<1>1. IsFiniteSet(numbered) /\ \A o \in numbered : o.number \in Nat
  BY DEF SeedsFit, Setup!OrderRows
<1>2. PICK m \in Nat : \A o \in numbered : f[o] \in 0..m
  BY <1>1, RowsBounded
<1>3. S \in SUBSET Nat /\ S # {} /\ \A n \in S : n <= m
  BY <1>1, <1>2
<1>4. PICK n \in S : \A k \in S : k <= n
  BY <1>2, <1>3, GreatestNumber
<1>5. Setup!Max(S) = CHOOSE x \in S : \A y \in S : x >= y
  BY DEF Setup!Max
<1>6. \A y \in S : n >= y
  BY <1>3, <1>4
<1>7. Setup!Max(S) \in S /\ \A y \in S : Setup!Max(S) >= y
  <2> HIDE DEF S
  <2> QED
    BY <1>4, <1>5, <1>6
<1>8. Setup!Max(S) \in Nat /\ \A y \in S : y <= Setup!Max(S)
  BY <1>3, <1>7
<1>9. \A o \in numbered : o.number \in S
  OBVIOUS
<1> QED
  BY <1>7, <1>8, <1>9

LEMMA EarlyOnes ==
  ASSUME SetupAssumption, SeedsFit
  PROVE  /\ IsFiniteSet(Early) /\ Cardinality(Early) \in Nat
         /\ Early \subseteq Setup!Own(numbered)
            /\ Cardinality(Early) <= Cardinality(Setup!Own(numbered))
         /\ IsFiniteSet(Setup!Own(numbered)) /\ Cardinality(Setup!Own(numbered)) \in Nat
<1>1. IsFiniteSet(numbered) /\ Setup!Own(numbered) \in SUBSET numbered
  BY DEF SeedsFit, Setup!Own
<1>2. IsFiniteSet(Setup!Own(numbered)) /\ Early \in SUBSET Setup!Own(numbered)
  BY <1>1, FS_Subset DEF Early
<1> QED
  BY <1>2, FS_Subset, FS_CardinalityType

LEMMA OrderAdded ==
  ASSUME SetupAssumption, SeedsFit, Setup!AddOrder
  PROVE  SeedsFit'
<1> DEFINE last_ == Setup!Max({o.number : o \in numbered} \cup {0})
           new == [number |-> 1 + last_, seeded |-> FALSE]
           k == Cardinality(Early)
<1>1. /\ Cardinality(Setup!Own(numbered)) + Cardinality(lost) < MaxOrders
      /\ numbered' = numbered \cup {new} /\ UNCHANGED <<found, uses, products, lost, crossed>>
  BY SampleFinite DEF Setup!AddOrder
<1>2. /\ last_ \in Nat /\ \A o \in numbered : o.number <= last_
      /\ last_ = 0 \/ \E o \in numbered : o.number = last_
  BY NumberedLast
<1> HIDE DEF last_
<1>3. k \in Nat /\ k <= Cardinality(Setup!Own(numbered)) /\ Cardinality(Setup!Own(numbered)) \in Nat
      /\ IsFiniteSet(Early)
  BY EarlyOnes
<1>4. Cardinality(lost) \in Nat
  BY FS_CardinalityType DEF SeedsFit
<1>5. k + 1 < FirstNumber
  BY <1>1, <1>3, <1>4, SampleFacts
<1>6. numbered \in SUBSET Setup!OrderRows /\ \A o \in numbered : o.number \in Nat
  BY DEF SeedsFit, Setup!OrderRows
<1>7. new \in Setup!OrderRows /\ new \notin numbered /\ new.number = last_ + 1 /\ ~new.seeded
  BY <1>2, <1>6 DEF Setup!OrderRows
<1>8. numbered' \in SUBSET Setup!OrderRows /\ IsFiniteSet(numbered')
  BY <1>1, <1>6, <1>7, FS_AddElement DEF SeedsFit
<1>9. \A o \in numbered', p \in numbered' : o.number = p.number => o = p
  <2>1. \A o \in numbered : o.number # new.number
    BY <1>2, <1>6, <1>7
  <2> QED
    BY <1>1, <2>1 DEF SeedsFit
<1>10. last_ <= k \/ last_ >= FirstNumber
  <2>1. CASE last_ = 0
    BY <1>3, <2>1
  <2>2. ASSUME NEW o \in numbered, o.number = last_
        PROVE  last_ <= k \/ last_ >= FirstNumber
    <3>1. o = Setup!Seeded \/ o.number <= k \/ o.number > FirstNumber
      BY DEF SeedsFit
    <3> QED
      BY <1>2, <2>2, <3>1, SampleFacts DEF Setup!Seeded
  <2> QED
    BY <1>2, <2>1, <2>2
<1>11. /\ Early \subseteq Early' /\ k <= Cardinality(Early')
       /\ new.number <= Cardinality(Early') \/ new.number > FirstNumber
       /\ Cardinality(Early') \in Nat /\ Cardinality(Early') < FirstNumber
  <2>1. CASE last_ <= k
    <3>1. Early' = Early \cup {new} /\ new \notin Early
      BY <1>1, <1>2, <1>3, <1>5, <1>7, <2>1, SampleFacts DEF Early, Setup!Own
    <3>2. Cardinality(Early') = k + 1
      BY <1>3, <3>1, FS_AddElement
    <3> QED
      BY <1>2, <1>3, <1>5, <1>7, <2>1, <3>1, <3>2
  <2>2. CASE last_ >= FirstNumber
    <3>1. ~(new.number < FirstNumber) /\ new.number > FirstNumber
      BY <1>2, <1>7, <2>2, SampleFacts
    <3>2. Early' = Early
      BY <1>1, <3>1 DEF Early, Setup!Own
    <3> QED
      BY <1>3, <1>5, <3>1, <3>2, SampleFacts
  <2> QED
    BY <1>10, <2>1, <2>2
<1>12. \A o \in numbered' : IF o.seeded THEN o = Setup!Seeded
                             ELSE o.number <= Cardinality(Early') \/ o.number > FirstNumber
  <2>1. ASSUME NEW o \in numbered, ~o.seeded
        PROVE  o.number <= Cardinality(Early') \/ o.number > FirstNumber
    <3>1. o.number <= k \/ o.number > FirstNumber
      BY <2>1 DEF SeedsFit
    <3> QED
      BY <1>3, <1>6, <1>11, <3>1
  <2> QED
    BY <1>1, <1>7, <1>11, <2>1 DEF SeedsFit
<1> QED
  BY <1>1, <1>8, <1>9, <1>11, <1>12 DEF SeedsFit

LEMMA MockSeeded ==
  ASSUME SetupAssumption, SeedsFit, NEW reset \in BOOLEAN, Setup!SeedMock(reset)
  PROVE  SeedsFit'
<1>1. PICK kept : kept = IF reset THEN Setup!KeptOrders ELSE numbered
  OBVIOUS
<1>2. /\ \A o \in Setup!Own(kept) : o.number # FirstNumber
      /\ numbered' = kept \cup {Setup!Seeded} /\ lost' = lost \cup Setup!Own(numbered \ kept)
      /\ products' = (IF reset THEN Setup!KeptProducts ELSE products) \cup {"sample"}
      /\ crossed' = (crossed \/ "file" \in products)
  BY <1>1 DEF Setup!SeedMock
<1>3. kept \in SUBSET numbered /\ numbered \in SUBSET Setup!OrderRows /\ IsFiniteSet(numbered)
      /\ IsFiniteSet(kept) /\ lost \in SUBSET Setup!OrderRows /\ IsFiniteSet(lost)
  BY <1>1, FS_Subset DEF Setup!KeptOrders, SeedsFit
<1>4. Setup!Seeded \in Setup!OrderRows /\ Setup!Seeded.seeded /\ Setup!Seeded.number = FirstNumber
  BY SampleFacts DEF Setup!Seeded, Setup!OrderRows
<1>5. numbered' \in SUBSET Setup!OrderRows /\ IsFiniteSet(numbered')
  BY <1>2, <1>3, <1>4, FS_AddElement
<1>6. Setup!Own(numbered \ kept) \in SUBSET numbered
  BY DEF Setup!Own
<1>7. lost' \in SUBSET Setup!OrderRows /\ IsFiniteSet(lost')
  BY <1>2, <1>3, <1>6, FS_Subset, FS_Union
<1>8. \A o \in numbered : o.number \in Nat
  BY <1>3 DEF Setup!OrderRows
<1>9. \A o \in lost' : o.number > FirstNumber
  <2>1. ASSUME NEW o \in Setup!Own(numbered \ kept)
        PROVE  o.number > FirstNumber
    <3>1. o \in numbered /\ ~o.seeded /\ o \notin kept
      BY DEF Setup!Own
    <3>2. ~(o.number < FirstNumber)
      BY <1>1, <3>1 DEF Setup!KeptOrders
    <3>3. o.number <= Cardinality(Early) \/ o.number > FirstNumber
      BY <3>1 DEF SeedsFit
    <3>4. CASE o.number <= Cardinality(Early)
      <4>1. ~(o.number < FirstNumber) /\ o.number \in Nat
        BY <1>8, <3>1, <3>2
      <4> QED
        BY <3>4, <4>1, EarlyOnes, SampleFacts DEF SeedsFit
    <3> QED
      BY <3>3, <3>4
  <2> QED
    BY <1>2, <2>1 DEF SeedsFit
<1>10. \A o \in numbered', p \in numbered' : o.number = p.number => o = p
  <2>1. \A o \in kept : o.number = FirstNumber => o = Setup!Seeded
    BY <1>2, <1>3 DEF Setup!Own, SeedsFit
  <2> QED
    BY <1>2, <1>3, <1>4, <2>1 DEF SeedsFit
<1>11. Early' = Early
  BY <1>1, <1>2, <1>3, <1>4 DEF Early, Setup!Own, Setup!KeptOrders
<1>12. \A o \in numbered' : IF o.seeded THEN o = Setup!Seeded
                             ELSE o.number <= Cardinality(Early') \/ o.number > FirstNumber
  BY <1>2, <1>3, <1>4, <1>11 DEF SeedsFit
<1>13. products' \subseteq {"sample", "file"} /\ (products' = {"sample", "file"} => crossed')
  BY <1>2 DEF SeedsFit, Setup!KeptProducts
<1>14. Cardinality(Early') < FirstNumber
  BY <1>11 DEF SeedsFit
<1> QED
  BY <1>5, <1>7, <1>9, <1>10, <1>12, <1>13, <1>14 DEF SeedsFit

LEMMA SeedsStep ==
  ASSUME SetupAssumption, SeedsFit, [Setup!SampleNext]_seedVars
  PROVE  SeedsFit'
<1>1. CASE \E reset \in BOOLEAN : Setup!SeedMock(reset)
  BY <1>1, MockSeeded
<1>2. CASE Setup!AddOrder
  BY <1>2, OrderAdded
<1>3. CASE \/ \E dry \in BOOLEAN : Setup!Import(dry)
           \/ \E kk \in Setup!SeedKinds : Setup!AddBeside(kk)
           \/ \E u \in Uses : Setup!Refer(u)
           \/ UNCHANGED seedVars
  <2>1. UNCHANGED <<numbered, lost, crossed>> /\ products' \in {products, {"file"}}
    BY <1>3 DEF Setup!Import, Setup!AddBeside, Setup!Refer, seedVars
  <2>2. Early' = Early
    BY <2>1 DEF Early, Setup!Own
  <2> QED
    BY <2>1, <2>2 DEF SeedsFit
<1> QED
  BY <1>1, <1>2, <1>3 DEF Setup!SampleNext

LEMMA SamplesInvIs == SamplesInv <=> SeedsFit
BY SampleFinite DEF SamplesInv, SeedsFit

LEMMA SamplesInvInit == SetupAssumption /\ Setup!SampleInit => SamplesInv
BY SeedsFitInit, SamplesInvIs

LEMMA SamplesInvStep ==
  ASSUME SetupAssumption, SamplesInv, [Setup!SampleNext]_seedVars
  PROVE  SamplesInv'
<1>1. SeedsFit'
  BY SamplesInvIs, SeedsStep
<1> QED
  BY <1>1, SampleFinite DEF SamplesInv, SeedsFit

LEMMA SamplesAreWhole ==
  ASSUME SetupAssumption, SamplesInv
  PROVE  Setup!SamplesHold
<1> DEFINE f == [o \in numbered |-> o.number]
           S == {o.number : o \in numbered}
<1>1. SeedsFit
  BY SamplesInvIs
<1>2. Cardinality(S) = Cardinality(numbered)
  <2>1. f \in [numbered -> S] /\ \A o, p \in numbered : f[o] = f[p] => o = p
    BY <1>1 DEF SeedsFit
  <2>2. \A n \in S : \E o \in numbered : f[o] = n
    OBVIOUS
  <2>3. f \in Bijection(numbered, S)
    BY <2>1, <2>2, Zenon DEF Bijection, Injection, Surjection, IsInjective
  <2>4. ExistsBijection(numbered, S)
    BY <2>3 DEF ExistsBijection
  <2> QED
    BY <1>1, <2>4, FS_Bijection DEF SeedsFit
<1>3. Cardinality(numbered \ Setup!Own(numbered)) <= 1
  <2>1. numbered \ Setup!Own(numbered) \in {{}, {Setup!Seeded}}
    BY <1>1 DEF SeedsFit, Setup!Own
  <2> QED
    <3>1. CASE numbered \ Setup!Own(numbered) = {}
      BY <3>1, FS_EmptySet
    <3>2. CASE numbered \ Setup!Own(numbered) = {Setup!Seeded}
      <4>1. Cardinality({Setup!Seeded}) = 1
        BY FS_Singleton
      <4> QED
        BY <3>2, <4>1
    <3> QED
      BY <2>1, <3>1, <3>2
<1>4. Cardinality(products) = 2 => crossed
  <2>1. SUFFICES ASSUME ~crossed
                 PROVE  Cardinality(products) # 2
    OBVIOUS
  <2>2. PICK x : products \in SUBSET {x}
    <3>1. products \subseteq {"sample", "file"} /\ products # {"sample", "file"}
      BY <1>1, <2>1 DEF SeedsFit
    <3>2. "sample" \notin products \/ "file" \notin products
      BY <3>1
    <3>3. products \in SUBSET {"file"} \/ products \in SUBSET {"sample"}
      BY <3>1, <3>2
    <3> QED
      BY <3>3
  <2>3. IsFiniteSet({x}) /\ Cardinality({x}) = 1
    BY FS_Singleton
  <2>4. Cardinality(products) <= 1 /\ IsFiniteSet(products)
    BY <2>2, <2>3, FS_Subset
  <2>5. Cardinality(products) \in Nat
    BY <2>4, FS_CardinalityType
  <2> QED
    BY <2>4, <2>5
<1> QED
  BY <1>1, <1>2, <1>3, <1>4, SampleFinite DEF SeedsFit, Setup!SamplesHold

(* What holds of the rows of the other parts. *)
WholePart ==
  /\ part = "contacts" => ContactsInv
  /\ part = "quotes" => QuotesInv
  /\ part = "setup" => SetupInv
  /\ part = "seeds" => SamplesInv

LEMMA WholeHolds == CoreSpec => []WholePart
<1>1. CoreInit => WholePart
  BY ContactsInvInit, QuotesInvInit, SetupInvInit, SamplesInvInit, FormsAssumption,
     SetupAssumption
     DEF CoreInit, WholePart
<1>2. WholePart /\ [CoreNext]_coreVars => WholePart'
  <2>1. [CoreNext]_coreVars =>
          /\ part' = part
          /\ part = "contacts" => [Formed!ContactsNext]_contactVars
          /\ part = "quotes" => [Formed!QuotesNext]_listVars
          /\ part = "setup" => [Setup!Next]_setupVars
          /\ part = "seeds" => [Setup!SampleNext]_seedVars
    BY DEF CoreNext, coreVars
  <2>2. CASE part = "contacts"
    BY <2>1, <2>2, ContactsInvStep, FormsAssumption DEF WholePart
  <2>3. CASE part = "quotes"
    BY <2>1, <2>3, QuotesInvStep, FormsAssumption DEF WholePart
  <2>4. CASE part = "setup"
    BY <2>1, <2>4, SetupInvStep, SetupAssumption DEF WholePart
  <2>5. CASE part = "seeds"
    BY <2>1, <2>5, SamplesInvStep, SetupAssumption DEF WholePart
  <2> QED
    BY <2>1, <2>2, <2>3, <2>4, <2>5 DEF WholePart
<1> QED
  BY <1>1, <1>2, PTL DEF CoreSpec

(* The contacts of a form are those of one edit of it; a quotation and its    *)
(* copies have the products of one list, each with all its parts, unless they  *)
(* were taken while the list was written (LeadDetailView, ClientDetailView and *)
(* the quotation views of src/apps/core/crm_views.py); the catalogue, the      *)
(* first administrator, the scheduler and the rows of the seed agree through   *)
(* purges, restarts, sign-ups and imports (the commands under                *)
(* src/apps/core/management/commands).                                       *)
THEOREM CoreListsAndSetupWhole == CoreSpec => []ListsAndSetupWhole
<1>1. WholePart => ListsAndSetupWhole
  BY SamplesAreWhole, SetupAssumption
     DEF WholePart, ListsAndSetupWhole, ContactsInv, QuotesInv, SetupInv
<1> QED
  BY <1>1, WholeHolds, PTL

-----------------------------------------------------------------------------
(* Generated documents: keys in rows, requests and sweeps.                  *)
LEMMA FilesFinite ==
  ASSUME NEW S
  PROVE  Files!Cardinality(S) = Cardinality(S)
BY DEF Files!Cardinality, Cardinality

LEMMA FilesFacts ==
  ASSUME FilesAssumption
  PROVE  IsFiniteSet(Rows) /\ None \notin Files!RowType /\ None \notin Files!BuildRows
BY DEF FilesAssumption, Files!FilesConstants, Files!IsFiniteSet, IsFiniteSet

(* What the proofs about GeneratedFiles need beside its properties: keys    *)
(* are never used twice. A request has its file in one place once it is       *)
(* uploaded, and what a sweep has listed is of no row that a link could be  *)
(* given out for, however the row has been written since.                   *)

KeysDrawnOnce ==
  /\ \A i \in Rows, j \in Rows :
       rows[i] # None /\ rows[j] # None /\ rows[i].key = rows[j].key => i = j
  /\ \A b \in Builders, c \in Builders :
       builds[b] # None /\ builds[c] # None /\ builds[b].key = builds[c].key => b = c
  /\ \A b \in Builders, i \in Rows :
       builds[b] # None /\ rows[i] # None => builds[b].key # rows[i].key

BuildFits(b) ==
  /\ builds[b].key \in spent
  /\ builds[b].step # "upload" => builds[b].key \in objects \cup local

EntryFits(e) ==
  /\ e.key \in spent /\ rows[e.row] # None
  /\ \A i \in Rows : rows[i] # None /\ rows[i].key = e.key => ~Files!Valid(i)
  /\ \A b \in Builders : builds[b] # None => builds[b].key # e.key

FilesInv ==
  /\ rows \in [Rows -> Files!RowType \cup {None}]
  /\ builds \in [Builders -> Files!BuildRows \cup {None}]
  /\ \A i \in Rows : rows[i] # None => rows[i].key \in spent
  /\ KeysDrawnOnce
  /\ \A b \in Builders : builds[b] # None => BuildFits(b)
  /\ sweep # None => \A e \in sweep : EntryFits(e)
  /\ Files!LinksHaveFiles

LEMMA FilesInvInit ==
  ASSUME FilesAssumption, Files!FilesInit
  PROVE  FilesInv
BY DEF Files!FilesInit, FilesInv, KeysDrawnOnce, Files!LinksHaveFiles, Files!FilesTypeOK

LEMMA FileRowTyped ==
  ASSUME FilesInv, NEW i \in Rows, rows[i] # None
  PROVE  rows[i] \in Files!RowType /\ rows[i].key \in Keys
<1>1. rows[i] \in Files!RowType
  BY DEF FilesInv
<1>2. \A q \in Files!RowType : q.key \in Keys
  BY DEF Files!RowType
<1> QED
  BY <1>1, <1>2

LEMMA BuildTyped ==
  ASSUME FilesInv, NEW b \in Builders, builds[b] # None
  PROVE  /\ builds[b] \in Files!BuildRows /\ builds[b].document \in Documents
            /\ builds[b].key \in Keys
         /\ builds[b].step \in {"upload", "lookup", "insert"} /\ BuildFits(b)
BY DEF FilesInv, Files!BuildRows

LEMMA Built ==
  ASSUME FilesAssumption, FilesInv, NEW b \in Builders, NEW d \in Documents, NEW k \in Keys,
         Files!Build(b, d, k)
  PROVE  FilesInv'
<1> DEFINE new == [document |-> d, key |-> k, step |-> "upload"]
<1>1. /\ builds[b] = None /\ k \notin spent /\ builds' = [builds EXCEPT ![b] = new]
      /\ spent' = spent \cup {k} /\ UNCHANGED <<rows, objects, local, sweep>>
  BY DEF Files!Build
<1>2. new \in Files!BuildRows /\ new.key = k /\ new.step = "upload"
  BY DEF Files!BuildRows
<1> HIDE DEF new
<1>3. /\ builds' \in [Builders -> Files!BuildRows \cup {None}] /\ builds'[b] = new
      /\ \A c \in Builders \ {b} : builds'[c] = builds[c]
  BY <1>1, <1>2 DEF FilesInv
<1>4. \A i \in Rows : rows[i] # None => rows[i].key # k
  BY <1>1 DEF FilesInv
<1>5. \A c \in Builders : builds[c] # None => builds[c].key # k
  BY <1>1 DEF FilesInv, BuildFits
<1>6. sweep # None => \A e \in sweep : e.key # k
  BY <1>1 DEF FilesInv, EntryFits
<1>7. KeysDrawnOnce'
  BY <1>1, <1>2, <1>3, <1>4, <1>5 DEF FilesInv, KeysDrawnOnce
<1>8. \A c \in Builders : builds'[c] # None => BuildFits(c)'
  BY <1>1, <1>2, <1>3 DEF FilesInv, BuildFits
<1>9. sweep' # None => \A e \in sweep' : EntryFits(e)'
  BY <1>1, <1>2, <1>3, <1>6 DEF FilesInv, EntryFits, Files!Valid
<1>10. Files!LinksHaveFiles'
  BY <1>1 DEF FilesInv, Files!LinksHaveFiles, Files!FilesTypeOK, Files!Valid
<1> QED
  BY <1>1, <1>3, <1>7, <1>8, <1>9, <1>10 DEF FilesInv

(* A request that goes on with its key, or ends without having written. *)
LEMMA BuildGoesOn ==
  ASSUME FilesAssumption, FilesInv, NEW b \in Builders, builds[b] # None,
         builds' \in [Builders -> Files!BuildRows \cup {None}],
         \A c \in Builders \ {b} : builds'[c] = builds[c],
         builds'[b] # None => /\ builds'[b].key = builds[b].key
                              /\ builds'[b].step # "upload" =>
                                 builds[b].key \in (objects \cup local)',
         objects \cup local \subseteq (objects \cup local)',
           (objects \cup local)' \subseteq spent, UNCHANGED <<rows, spent, sweep>>
  PROVE  FilesInv'
<1>1. KeysDrawnOnce'
  BY DEF FilesInv, KeysDrawnOnce
<1>2. \A c \in Builders : builds'[c] # None => BuildFits(c)'
  BY DEF FilesInv, BuildFits
<1>3. sweep' # None => \A e \in sweep' : EntryFits(e)'
  BY DEF FilesInv, EntryFits, Files!Valid
<1>4. Files!LinksHaveFiles'
  BY DEF FilesInv, Files!LinksHaveFiles, Files!FilesTypeOK, Files!Valid
<1> QED
  BY <1>1, <1>2, <1>3, <1>4 DEF FilesInv

(* The file of a request becomes that of one row. *)
LEMMA RowWritten ==
  ASSUME FilesAssumption, FilesInv, NEW b \in Builders, builds[b] # None,
         builds[b].step # "upload", NEW i \in Rows, NEW row \in Files!RowType,
         row.key = builds[b].key, rows' = [rows EXCEPT ![i] = row],
         builds' = [builds EXCEPT ![b] = None], UNCHANGED <<objects, local, spent, sweep>>
  PROVE  FilesInv'
<1>1. /\ rows' \in [Rows -> Files!RowType \cup {None}] /\ rows'[i] = row
      /\ \A j \in Rows \ {i} : rows'[j] = rows[j]
      /\ builds' \in [Builders -> Files!BuildRows \cup {None}] /\ builds'[b] = None
      /\ \A c \in Builders \ {b} : builds'[c] = builds[c]
  BY DEF FilesInv
<1>2. row.key \in spent /\ row.key \in objects \cup local
  BY BuildTyped DEF BuildFits
<1>3. row # None
  BY FilesFacts
<1>4. \A j \in Rows : rows[j] # None => rows[j].key # row.key
  BY DEF FilesInv, KeysDrawnOnce
<1>5. \A c \in Builders \ {b} : builds[c] # None => builds[c].key # row.key
  BY DEF FilesInv, KeysDrawnOnce
<1>6. sweep # None => \A e \in sweep : e.key # row.key
  BY DEF FilesInv, EntryFits
<1>7. KeysDrawnOnce'
  <2>1. \A j \in Rows, k \in Rows :
          rows'[j] # None /\ rows'[k] # None /\ rows'[j].key = rows'[k].key => j = k
    BY <1>1, <1>4 DEF FilesInv, KeysDrawnOnce
  <2>2. \A c \in Builders, e \in Builders :
          builds'[c] # None /\ builds'[e] # None /\ builds'[c].key = builds'[e].key => c = e
    BY <1>1 DEF FilesInv, KeysDrawnOnce
  <2>3. \A c \in Builders, j \in Rows :
          builds'[c] # None /\ rows'[j] # None => builds'[c].key # rows'[j].key
    BY <1>1, <1>5 DEF FilesInv, KeysDrawnOnce
  <2> QED
    BY <2>1, <2>2, <2>3 DEF KeysDrawnOnce
<1>8. \A c \in Builders : builds'[c] # None => BuildFits(c)'
  BY <1>1 DEF FilesInv, BuildFits
<1>9. sweep' # None => \A e \in sweep' : EntryFits(e)'
  <2>1. SUFFICES ASSUME sweep # None, NEW e \in sweep
                 PROVE  EntryFits(e)'
    OBVIOUS
  <2>2. EntryFits(e) /\ e.key # row.key
    BY <1>6, <2>1 DEF FilesInv
  <2>3. rows'[e.row] # None
    <3>1. e.row \in Rows
      BY <2>1 DEF FilesInv, Files!LinksHaveFiles, Files!FilesTypeOK, Files!Entry
    <3> QED
      BY <1>1, <1>3, <2>2, <3>1 DEF EntryFits
  <2>4. \A j \in Rows : rows'[j] # None /\ rows'[j].key = e.key => ~Files!Valid(j)'
    BY <1>1, <2>2 DEF EntryFits, Files!Valid
  <2> QED
    BY <1>1, <2>2, <2>3, <2>4 DEF EntryFits
<1>10. Files!LinksHaveFiles'
  <2>1. \A j \in Rows : rows'[j] # None => rows'[j] \in Files!RowType
    BY <1>1
  <2>2. \A j \in Rows : rows'[j] # None /\ Files!Valid(j)' => rows'[j].key \in objects \cup local
    BY <1>1, <1>2 DEF FilesInv, Files!LinksHaveFiles, Files!Valid
  <2> QED
    BY <2>1, <2>2 DEF FilesInv, Files!LinksHaveFiles, Files!FilesTypeOK
<1>11. \A j \in Rows : rows'[j] # None => rows'[j].key \in spent
  BY <1>1, <1>2 DEF FilesInv
<1> QED
  BY <1>1, <1>7, <1>8, <1>9, <1>10, <1>11 DEF FilesInv

LEMMA Recorded ==
  ASSUME FilesAssumption, FilesInv, NEW b \in Builders, Files!Record(b)
  PROVE  FilesInv'
<1> DEFINE d == builds[b].document
<1>1. builds[b] # None /\ builds[b].step = "lookup"
  BY DEF Files!Record, Files!At
<1>2. builds[b].key \in objects \cup local /\ builds[b] \in Files!BuildRows
        /\ objects \cup local \subseteq spent
  BY <1>1, BuildTyped
     DEF BuildFits, FilesInv, Files!LinksHaveFiles, Files!FilesTypeOK
<1>3. CASE UNCHANGED <<rows, objects, local, spent, sweep>>
            /\ (builds' = [builds EXCEPT ![b].step = "insert"]
               \/ builds' = [builds EXCEPT ![b] = None])
  <2>1. PICK new \in Files!BuildRows \cup {None} :
          builds' = [builds EXCEPT ![b] = new] /\ (new # None => new.key = builds[b].key)
    <3>1. CASE builds' = [builds EXCEPT ![b].step = "insert"]
      <4> DEFINE new == [builds[b] EXCEPT !.step = "insert"]
      <4>1. new \in Files!BuildRows /\ new.key = builds[b].key
        BY <1>2 DEF Files!BuildRows
      <4>2. builds' = [builds EXCEPT ![b] = new]
        BY <3>1 DEF FilesInv
      <4> HIDE DEF new
      <4> QED
        BY <4>1, <4>2
    <3>2. CASE builds' = [builds EXCEPT ![b] = None]
      BY <3>2
    <3> QED
      BY <1>3, <3>1, <3>2
  <2>2. /\ builds' \in [Builders -> Files!BuildRows \cup {None}] /\ builds'[b] = new
        /\ \A c \in Builders \ {b} : builds'[c] = builds[c]
    BY <2>1 DEF FilesInv
  <2> QED
    BY <1>1, <1>2, <1>3, <2>1, <2>2, BuildGoesOn
<1>4. CASE Files!Cardinality(Files!RowsOf(d)) = 1 /\ ~UNCHANGED rows
  <2> DEFINE row == [document |-> d, key |-> builds[b].key, expired |-> FALSE, deleted |-> FALSE]
  <2>1. /\ rows' = [i \in Rows |-> IF i \in Files!RowsOf(d) THEN row ELSE rows[i]]
        /\ builds' = [builds EXCEPT ![b] = None] /\ UNCHANGED <<objects, local, spent, sweep>>
    BY <1>4 DEF Files!Record
  <2>2. Files!RowsOf(d) \in SUBSET Rows /\ IsFiniteSet(Files!RowsOf(d))
    BY FilesFacts, FS_Subset DEF Files!RowsOf
  <2>3. PICK i : Files!RowsOf(d) = {i}
    BY <1>4, <2>2, FilesFinite, FS_Singleton
  <2>4. i \in Rows
    BY <2>2, <2>3
  <2>5. row \in Files!RowType /\ row.key = builds[b].key
    BY <1>1, BuildTyped DEF Files!RowType
  <2> HIDE DEF row
  <2>6. rows' = [rows EXCEPT ![i] = row]
    BY <2>1, <2>3, <2>4 DEF FilesInv
  <2> QED
    BY <1>1, <2>1, <2>4, <2>5, <2>6, RowWritten
<1> QED
  BY <1>3, <1>4 DEF Files!Record

LEMMA Inserted ==
  ASSUME FilesAssumption, FilesInv, NEW b \in Builders, NEW i \in Rows, Files!Insert(b, i)
  PROVE  FilesInv'
<1> DEFINE row == [document |-> builds[b].document, key |-> builds[b].key,
                   expired |-> FALSE, deleted |-> FALSE]
<1>1. /\ builds[b] # None /\ builds[b].step = "insert" /\ rows' = [rows EXCEPT ![i] = row]
      /\ builds' = [builds EXCEPT ![b] = None] /\ UNCHANGED <<objects, local, spent, sweep>>
  BY DEF Files!Insert, Files!At
<1>2. row \in Files!RowType /\ row.key = builds[b].key
  BY <1>1, BuildTyped DEF Files!RowType
<1> HIDE DEF row
<1> QED
  BY <1>1, <1>2, RowWritten

LEMMA UploadedOrDied ==
  ASSUME FilesAssumption, FilesInv, NEW b \in Builders, Files!Upload(b)
           \/ Files!DieBuilding(b)
  PROVE  FilesInv'
<1>1. builds[b] # None /\ UNCHANGED <<rows, spent, sweep>>
  BY DEF Files!Upload, Files!DieBuilding, Files!At
<1>2. builds[b] \in Files!BuildRows /\ builds[b].key \in spent /\ objects \cup local \subseteq spent
  BY <1>1, BuildTyped
     DEF BuildFits, FilesInv, Files!LinksHaveFiles, Files!FilesTypeOK
<1>3. CASE Files!Upload(b)
  <2> DEFINE new == [builds[b] EXCEPT !.step = "lookup"]
  <2>1. new \in Files!BuildRows /\ new.key = builds[b].key
    BY <1>2 DEF Files!BuildRows
  <2>2. builds' = [builds EXCEPT ![b] = new]
          /\ (objects \cup local)' = objects \cup local \cup {builds[b].key}
    BY <1>3 DEF Files!Upload, FilesInv
  <2> HIDE DEF new
  <2>3. /\ builds' \in [Builders -> Files!BuildRows \cup {None}] /\ builds'[b] = new
        /\ \A c \in Builders \ {b} : builds'[c] = builds[c]
    BY <2>1, <2>2 DEF FilesInv
  <2> QED
    BY <1>1, <1>2, <2>1, <2>2, <2>3, BuildGoesOn
<1>4. CASE Files!DieBuilding(b)
  <2>1. builds' = [builds EXCEPT ![b] = None] /\ UNCHANGED <<objects, local>>
    BY <1>4 DEF Files!DieBuilding
  <2>2. /\ builds' \in [Builders -> Files!BuildRows \cup {None}] /\ builds'[b] = None
        /\ \A c \in Builders \ {b} : builds'[c] = builds[c]
    BY <2>1 DEF FilesInv
  <2> QED
    BY <1>1, <1>2, <2>1, <2>2, BuildGoesOn
<1> QED
  BY <1>3, <1>4

(* A row that expires or is marked keeps its key, and gets no link back. *)
LEMMA RowAged ==
  ASSUME FilesAssumption, FilesInv, NEW i \in Rows, rows[i] # None, NEW row \in Files!RowType,
         row.key = rows[i].key, ~row.expired /\ ~row.deleted => Files!Valid(i),
         rows' = [rows EXCEPT ![i] = row],
         sweep # None /\ sweep' # None => sweep' \subseteq sweep,
         sweep' # None => sweep # None, UNCHANGED <<objects, local, spent, builds>>
  PROVE  FilesInv'
<1>1. /\ rows' \in [Rows -> Files!RowType \cup {None}] /\ rows'[i] = row /\ row # None
      /\ \A j \in Rows \ {i} : rows'[j] = rows[j]
  BY FilesFacts DEF FilesInv
<1>2. \A j \in Rows : /\ (rows'[j] # None) = (rows[j] # None)
                      /\ rows[j] # None => rows'[j].key = rows[j].key
                         /\ (Files!Valid(j)' => Files!Valid(j))
  BY <1>1 DEF Files!Valid
<1>3. KeysDrawnOnce'
  BY <1>2 DEF FilesInv, KeysDrawnOnce
<1>4. \A c \in Builders : builds'[c] # None => BuildFits(c)'
  BY DEF FilesInv, BuildFits
<1>5. sweep' # None => \A e \in sweep' : EntryFits(e)'
  <2>1. SUFFICES ASSUME sweep' # None, NEW e \in sweep'
                 PROVE  EntryFits(e)'
    OBVIOUS
  <2>2. e \in sweep /\ EntryFits(e) /\ e.row \in Rows
    BY <2>1 DEF FilesInv, Files!LinksHaveFiles, Files!FilesTypeOK, Files!Entry
  <2> QED
    BY <1>2, <2>2 DEF EntryFits
<1>6. Files!LinksHaveFiles'
  <2>1. \A j \in Rows : rows'[j] # None => rows'[j] \in Files!RowType
    BY <1>1
  <2>2. \A j \in Rows : rows'[j] # None /\ Files!Valid(j)' => rows'[j].key \in (objects \cup local)'
    BY <1>2 DEF FilesInv, Files!LinksHaveFiles
  <2>3. sweep' # None => sweep' \subseteq Files!Entry
    BY DEF FilesInv, Files!LinksHaveFiles, Files!FilesTypeOK
  <2> QED
    BY <2>1, <2>2, <2>3 DEF FilesInv, Files!LinksHaveFiles, Files!FilesTypeOK
<1> QED
  BY <1>1, <1>2, <1>3, <1>4, <1>5, <1>6 DEF FilesInv

LEMMA FileSwept ==
  ASSUME FilesAssumption, FilesInv, NEW e \in Files!Entry, Files!RemoveObject(e)
           \/ Files!MarkRow(e)
  PROVE  FilesInv'
<1>1. sweep # None /\ e \in sweep /\ EntryFits(e) /\ e.row \in Rows
  BY DEF Files!RemoveObject, Files!MarkRow, FilesInv, Files!Entry
<1>2. CASE Files!RemoveObject(e)
  <2> DEFINE new == [e EXCEPT !.removed = TRUE]
  <2>1. /\ objects' \in {objects, objects \ {e.key}} /\ local' = local \ {e.key}
        /\ sweep' = (sweep \ {e}) \cup {new}
        /\ UNCHANGED <<rows, spent, builds>>
    BY <1>2 DEF Files!RemoveObject
  <2>2. new \in Files!Entry /\ new.key = e.key /\ new.row = e.row
    BY DEF Files!Entry
  <2> HIDE DEF new
  <2>3. \A b \in Builders : builds'[b] # None => BuildFits(b)'
    BY <1>1, <2>1 DEF FilesInv, BuildFits, EntryFits
  <2>4. \A x \in sweep' : EntryFits(x)'
    <3>1. EntryFits(new)
      BY <1>1, <2>2 DEF EntryFits
    <3>2. \A x \in sweep' : EntryFits(x)
      BY <1>1, <2>1, <3>1 DEF FilesInv
    <3> QED
      BY <2>1, <3>2 DEF EntryFits, Files!Valid
  <2>5. KeysDrawnOnce'
    BY <2>1 DEF FilesInv, KeysDrawnOnce
  <2>6. Files!LinksHaveFiles'
    <3>1. (objects \cup local)' \subseteq spent /\ sweep' \subseteq Files!Entry
      BY <1>1, <2>1, <2>2 DEF FilesInv, Files!LinksHaveFiles, Files!FilesTypeOK
    <3>2. \A j \in Rows : rows[j] # None /\ Files!Valid(j) => rows[j].key \in (objects \cup local)'
      BY <1>1, <2>1 DEF FilesInv, Files!LinksHaveFiles, EntryFits
    <3> QED
      BY <2>1, <3>1, <3>2
         DEF FilesInv, Files!LinksHaveFiles, Files!FilesTypeOK, Files!Valid
  <2> QED
    BY <2>1, <2>3, <2>4, <2>5, <2>6 DEF FilesInv
<1>3. CASE Files!MarkRow(e)
  <2>1. PICK i \in Rows : i = e.row
    BY <1>1
  <2>2. rows[i] # None /\ rows[i] \in Files!RowType
    BY <1>1, <2>1 DEF EntryFits, FilesInv
  <2> DEFINE row == [rows[i] EXCEPT !.deleted = TRUE]
  <2>3. row \in Files!RowType /\ row.key = rows[i].key /\ row.deleted
    BY <2>2 DEF Files!RowType
  <2>4. /\ rows' = [rows EXCEPT ![i] = row] /\ sweep' = sweep \ {e}
        /\ UNCHANGED <<objects, local, spent, builds>>
    BY <1>3, <2>1 DEF Files!MarkRow, FilesInv
  <2> HIDE DEF row
  <2> QED
    BY <1>1, <2>2, <2>3, <2>4, RowAged
<1> QED
  BY <1>2, <1>3

LEMMA SweepStarted ==
  ASSUME FilesAssumption, FilesInv, Files!StartSweep
  PROVE  FilesInv'
<1> DEFINE old == {j \in Rows : rows[j] # None /\ rows[j].expired /\ ~rows[j].deleted}
<1>1. /\ sweep' = {[row |-> i, key |-> rows[i].key, removed |-> FALSE] : i \in old}
      /\ UNCHANGED <<rows, objects, local, spent, builds>>
  BY DEF Files!StartSweep
<1>2. ASSUME NEW e \in sweep'
      PROVE  e \in Files!Entry /\ EntryFits(e)
  <2>1. PICK i \in old : e = [row |-> i, key |-> rows[i].key, removed |-> FALSE]
    BY <1>1
  <2>2. i \in Rows /\ rows[i] # None /\ rows[i].expired /\ e.row = i /\ e.key = rows[i].key
    BY <2>1
  <2>3. e \in Files!Entry
    <3>1. rows[i].key \in Keys
      BY <2>2, FileRowTyped
    <3> QED
      BY <2>1, <3>1 DEF Files!Entry
  <2>4. \A j \in Rows : rows[j] # None /\ rows[j].key = e.key => ~Files!Valid(j)
    BY <2>2 DEF FilesInv, KeysDrawnOnce, Files!Valid
  <2>5. \A b \in Builders : builds[b] # None => builds[b].key # e.key
    BY <2>2 DEF FilesInv, KeysDrawnOnce
  <2> QED
    BY <2>2, <2>3, <2>4, <2>5 DEF FilesInv, EntryFits
<1>3. \A e \in sweep' : EntryFits(e)'
  BY <1>1, <1>2 DEF EntryFits, Files!Valid
<1>4. Files!LinksHaveFiles'
  BY <1>1, <1>2 DEF FilesInv, Files!LinksHaveFiles, Files!FilesTypeOK, Files!Valid
<1> QED
  BY <1>1, <1>3, <1>4 DEF FilesInv, KeysDrawnOnce, BuildFits

LEMMA FilesInvStep ==
  ASSUME FilesAssumption, FilesInv, [Files!FilesNext]_filesVars
  PROVE  FilesInv'
<1>1. ASSUME NEW i \in Rows, Files!Expire(i)
      PROVE  FilesInv'
  <2>1. rows[i] # None /\ rows[i] \in Files!RowType
    BY <1>1 DEF Files!Expire, FilesInv
  <2> DEFINE row == [rows[i] EXCEPT !.expired = TRUE]
  <2>2. row \in Files!RowType /\ row.key = rows[i].key /\ row.expired
    BY <2>1 DEF Files!RowType
  <2>3. rows' = [rows EXCEPT ![i] = row] /\ UNCHANGED <<objects, local, spent, builds, sweep>>
    BY <1>1 DEF Files!Expire, FilesInv
  <2> HIDE DEF row
  <2> QED
    BY <2>1, <2>2, <2>3, RowAged
<1>2. CASE UNCHANGED filesVars
  BY <1>2
     DEF filesVars, FilesInv, KeysDrawnOnce, BuildFits,
         EntryFits, Files!LinksHaveFiles,
              Files!FilesTypeOK, Files!Valid
<1>3. CASE Files!EndSweep
  BY <1>3
     DEF Files!EndSweep, FilesInv, KeysDrawnOnce, BuildFits,
         Files!LinksHaveFiles, Files!FilesTypeOK, Files!Valid
<1> QED
  BY <1>1, <1>2, <1>3, Built, UploadedOrDied, Recorded, Inserted, FileSwept,
     SweepStarted
     DEF Files!FilesNext

-----------------------------------------------------------------------------
(* Drawings: the deal that a drawing has, and the order that is shown with it. *)
LEMMA DrawingFacts ==
  ASSUME FilesAssumption
  PROVE  /\ None \notin Drawn!DrawingRows /\ Gone \notin Drawn!DrawingRows
            /\ None \notin Drawn!ReviewRows
         /\ None \notin DrawnDeals /\ Gone \notin DrawnDeals /\ None # Gone
BY DEF FilesAssumption, Drawn!DrawingsConstants

(* What the proofs about Drawings need beside its properties: the deal of a *)
(* drawing never changes, so what a request will write is about the deal    *)
(* that the drawing has now, or had.                                        *)

OfOwnDeal(row) ==
  row.deal # None /\ row.order # None => dealOf[row.order] \in {row.deal, Gone}

ReviewFits(r) ==
  /\ OfOwnDeal(reviews[r].row)
  /\ reviews[r].kind = "show" /\ reviews[r].row.order # None => reviews[r].row.deal # None
  /\ drawings[reviews[r].drawing] # None
  /\ Drawn!Kept(drawings[reviews[r].drawing]) =>
       drawings[reviews[r].drawing].deal = reviews[r].row.deal
  /\ \A s \in Reviews : reviews[s] # None /\ reviews[s].drawing = reviews[r].drawing =>
       reviews[s].row.deal = reviews[r].row.deal

DrawingsInv ==
  /\ drawings \in [DrawingIds -> Drawn!DrawingRows \cup {None, Gone}]
  /\ dealOf \in [DrawnOrders -> DrawnDeals \cup {None, Gone}]
  /\ reviews \in [Reviews -> Drawn!ReviewRows \cup {None}]
  /\ \A r \in Reviews : reviews[r] # None => ReviewFits(r)
  /\ Drawn!ShownInOwnOrder

LEMMA DrawingsInvInit ==
  ASSUME FilesAssumption, Drawn!DrawingsInit
  PROVE  DrawingsInv
BY DEF Drawn!DrawingsInit, DrawingsInv, Drawn!ShownInOwnOrder, Drawn!DrawingsTypeOK,
  Drawn!Kept

LEMMA DrawingTyped ==
  ASSUME FilesAssumption, DrawingsInv, NEW i \in DrawingIds
  PROVE  /\ drawings[i] \in Drawn!DrawingRows \cup {None, Gone}
         /\ Drawn!Kept(drawings[i]) <=> drawings[i] \in Drawn!DrawingRows
BY DrawingFacts DEF DrawingsInv, Drawn!Kept

LEMMA DrawingFields ==
  ASSUME NEW x \in Drawn!DrawingRows
  PROVE  x.deal \in DrawnDeals \cup {None} /\ x.order \in DrawnOrders \cup {None}
BY DEF Drawn!DrawingRows

LEMMA ReviewTyped ==
  ASSUME FilesAssumption, DrawingsInv, NEW r \in Reviews, reviews[r] # None
  PROVE  /\ reviews[r] \in Drawn!ReviewRows /\ reviews[r].drawing \in DrawingIds
         /\ reviews[r].row \in Drawn!DrawingRows /\ ReviewFits(r)
<1>1. reviews[r] \in Drawn!ReviewRows /\ ReviewFits(r)
  BY DEF DrawingsInv
<1>2. \A x \in Drawn!ReviewRows : x.drawing \in DrawingIds /\ x.row \in Drawn!DrawingRows
  BY DEF Drawn!ReviewRows
<1> QED
  BY <1>1, <1>2

(* A row as it should be, or none. *)
RowShown(x) == x \in Drawn!DrawingRows /\ x.order # None =>
                 /\ dealOf[x.order] \in DrawnDeals
                 /\ x.deal # None => dealOf[x.order] = x.deal

LEMMA ShownRows ==
  ASSUME FilesAssumption, DrawingsInv
  PROVE  \A i \in DrawingIds : RowShown(drawings[i])
<1> SUFFICES ASSUME NEW i \in DrawingIds, drawings[i] \in Drawn!DrawingRows,
  drawings[i].order # None
             PROVE  /\ dealOf[drawings[i].order] \in DrawnDeals
                    /\ drawings[i].deal # None => dealOf[drawings[i].order] = drawings[i].deal
  BY DEF RowShown
<1>1. Drawn!Kept(drawings[i]) /\ drawings[i].order \in DrawnOrders
  BY DrawingTyped, DrawingFields
<1> QED
  BY <1>1 DEF DrawingsInv, Drawn!ShownInOwnOrder, Drawn!Kept

LEMMA DrawingsFit ==
  ASSUME FilesAssumption,
         drawings' \in [DrawingIds -> Drawn!DrawingRows \cup {None, Gone}],
         dealOf' \in [DrawnOrders -> DrawnDeals \cup {None, Gone}],
         reviews' \in [Reviews -> Drawn!ReviewRows \cup {None}], filed' \subseteq DrawingIds,
         \A i \in DrawingIds : RowShown(drawings[i])',
         \A r \in Reviews : reviews'[r] # None => ReviewFits(r)'
  PROVE  DrawingsInv'
<1>1. Drawn!DrawingsTypeOK'
  BY DrawingFacts DEF Drawn!DrawingsTypeOK, Drawn!Kept
<1>2. ASSUME NEW i \in DrawingIds, Drawn!Kept(drawings[i])', drawings'[i].order # None
      PROVE  /\ Drawn!Kept(dealOf[drawings[i].order])'
             /\ drawings'[i].deal # None => dealOf'[drawings'[i].order] = drawings'[i].deal
  <2>1. drawings'[i] \in Drawn!DrawingRows
    BY <1>2 DEF Drawn!Kept
  <2>2. drawings'[i].order \in DrawnOrders
    BY <1>2, <2>1, DrawingFields
  <2> QED
    BY <1>2, <2>1, <2>2, DrawingFacts DEF RowShown, Drawn!Kept
<1> QED
  BY <1>1, <1>2 DEF DrawingsInv, Drawn!ShownInOwnOrder

(* The rows of orders change: none is opened twice, and the drawings of an    *)
(* order that is deleted go with it.                                        *)
LEMMA OrdersChanged ==
  ASSUME FilesAssumption, DrawingsInv,
         \/ \E o \in DrawnOrders, d \in DrawnDeals : Drawn!OpenOrder(o, d)
         \/ \E o \in DrawnOrders : Drawn!DropOrder(o)
  PROVE  DrawingsInv'
<1>1. PICK o \in DrawnOrders :
        (\E d \in DrawnDeals : Drawn!OpenOrder(o, d)) \/ Drawn!DropOrder(o)
  OBVIOUS
<1>2. \A i \in DrawingIds : RowShown(drawings[i])
  BY ShownRows
<1>3. dealOf \in [DrawnOrders -> DrawnDeals \cup {None, Gone}]
      /\ drawings \in [DrawingIds -> Drawn!DrawingRows \cup {None, Gone}]
      /\ reviews \in [Reviews -> Drawn!ReviewRows \cup {None}]
  BY DEF DrawingsInv
<1>4. /\ dealOf' \in [DrawnOrders -> DrawnDeals \cup {None, Gone}]
      /\ \A p \in DrawnOrders \ {o} : dealOf'[p] = dealOf[p]
      /\ dealOf[o] = None \/ dealOf'[o] = Gone
      /\ UNCHANGED <<filed, reviews>>
      /\ drawings' \in [DrawingIds -> Drawn!DrawingRows \cup {None, Gone}]
      /\ \A i \in DrawingIds : drawings'[i] = drawings[i] \/ drawings'[i] = Gone
      /\ dealOf[o] = None \/ \A i \in DrawingIds :
           drawings[i] \in Drawn!DrawingRows /\ drawings[i].order = o => drawings'[i] = Gone
      /\ dealOf[o] = None => drawings' = drawings
  <2>1. CASE \E d \in DrawnDeals : Drawn!OpenOrder(o, d)
    BY <1>3, <2>1 DEF Drawn!OpenOrder
  <2>2. CASE Drawn!DropOrder(o)
    BY <1>3, <2>2, DrawingFacts DEF Drawn!DropOrder, Drawn!Kept
  <2> QED
    BY <1>1, <2>1, <2>2
<1>5. ASSUME NEW i \in DrawingIds
      PROVE  RowShown(drawings[i])'
  <2>1. SUFFICES ASSUME drawings'[i] \in Drawn!DrawingRows, drawings'[i].order # None
                 PROVE  /\ dealOf'[drawings'[i].order] \in DrawnDeals
                        /\ drawings'[i].deal # None =>
                           dealOf'[drawings'[i].order] = drawings'[i].deal
    BY DEF RowShown
  <2>2. drawings'[i] = drawings[i] /\ drawings[i].order \in DrawnOrders
    BY <1>4, <2>1, DrawingFacts, DrawingFields
  <2>3. RowShown(drawings[i])
    BY <1>2
  <2>4. drawings[i].order # o
    BY <1>4, <2>1, <2>2, <2>3, DrawingFacts DEF RowShown
  <2> QED
    BY <1>4, <2>1, <2>2, <2>3, <2>4 DEF RowShown
<1>6. ASSUME NEW r \in Reviews, reviews'[r] # None
      PROVE  ReviewFits(r)'
  <2>1. /\ reviews[r].drawing \in DrawingIds /\ reviews[r].row \in Drawn!DrawingRows
           /\ ReviewFits(r)
        /\ reviews' = reviews
    BY <1>4, <1>6, ReviewTyped
  <2>2. OfOwnDeal(reviews[r].row)'
    BY <1>4, <2>1, DrawingFacts, DrawingFields DEF ReviewFits, OfOwnDeal
  <2> QED
    BY <1>4, <2>1, <2>2, DrawingFacts DEF ReviewFits, Drawn!Kept
<1> QED
  BY <1>3, <1>4, <1>5, <1>6, DrawingsFit
     DEF DrawingsInv, Drawn!ShownInOwnOrder, Drawn!DrawingsTypeOK

(* One drawing is added, written over or deleted, and requests may end. *)
LEMMA DrawingChanged ==
  ASSUME FilesAssumption, DrawingsInv, NEW i \in DrawingIds,
         NEW x \in Drawn!DrawingRows \cup {None, Gone}, drawings' = [drawings EXCEPT ![i] = x],
         RowShown(x), x = None => drawings[i] = None,
         \A r \in Reviews : reviews'[r] \in {reviews[r], None},
         reviews' \in [Reviews -> Drawn!ReviewRows \cup {None}],
         \A r \in Reviews : reviews'[r] # None /\ reviews[r].drawing = i /\ Drawn!Kept(x) =>
           reviews[r].row.deal = x.deal,
         filed' \subseteq DrawingIds, UNCHANGED dealOf
  PROVE  DrawingsInv'
<1>1. drawings \in [DrawingIds -> Drawn!DrawingRows \cup {None, Gone}]
      /\ dealOf \in [DrawnOrders -> DrawnDeals \cup {None, Gone}]
  BY DEF DrawingsInv
<1>2. /\ drawings' \in [DrawingIds -> Drawn!DrawingRows \cup {None, Gone}] /\ drawings'[i] = x
      /\ \A j \in DrawingIds \ {i} : drawings'[j] = drawings[j]
  BY <1>1
<1>3. ASSUME NEW j \in DrawingIds
      PROVE  RowShown(drawings[j])'
  <2>1. RowShown(drawings[j])
    BY ShownRows
  <2> QED
    BY <1>2, <2>1 DEF RowShown
<1>4. ASSUME NEW r \in Reviews, reviews'[r] # None
      PROVE  ReviewFits(r)'
  <2>1. reviews'[r] = reviews[r]
    BY <1>4
  <2>2. reviews[r].drawing \in DrawingIds /\ ReviewFits(r)
    BY <1>4, <2>1, ReviewTyped
  <2>3. OfOwnDeal(reviews[r].row)'
    BY <2>1, <2>2 DEF ReviewFits, OfOwnDeal
  <2>4. \A s \in Reviews : reviews'[s] # None /\ reviews'[s].drawing = reviews[r].drawing =>
          reviews'[s].row.deal = reviews[r].row.deal
    BY <2>2 DEF ReviewFits
  <2>5. drawings'[reviews[r].drawing] # None
    BY <1>2, <2>2 DEF ReviewFits
  <2>6. Drawn!Kept(drawings[reviews[r].drawing])' =>
          drawings'[reviews[r].drawing].deal = reviews[r].row.deal
    <3>1. CASE reviews[r].drawing = i
      <4>1. Drawn!Kept(x) => reviews[r].row.deal = x.deal
        BY <1>4, <3>1
      <4> QED
        BY <1>2, <2>1, <3>1, <4>1 DEF Drawn!Kept
    <3>2. CASE reviews[r].drawing # i
      <4>1. drawings'[reviews[r].drawing] = drawings[reviews[r].drawing]
        BY <1>2, <2>2, <3>2
      <4> QED
        BY <2>1, <2>2, <4>1 DEF ReviewFits, Drawn!Kept
    <3> QED
      BY <3>1, <3>2
  <2> QED
    BY <2>1, <2>2, <2>3, <2>4, <2>5, <2>6 DEF ReviewFits
<1> QED
  BY <1>1, <1>2, <1>3, <1>4, DrawingsFit

LEMMA DrawingAddedOrDeleted ==
  ASSUME FilesAssumption, DrawingsInv, NEW i \in DrawingIds,
         \/ \E d \in DrawnDeals \cup {None}, o \in DrawnOrders \cup {None},
               s \in {"pending", "approved"} : Drawn!AddDrawing(i, d, o, s)
         \/ Drawn!DeleteDrawing(i)
  PROVE  DrawingsInv'
<1>1. UNCHANGED <<dealOf, filed, reviews>>
  BY DEF Drawn!AddDrawing, Drawn!DeleteDrawing
<1>2. \A r \in Reviews : reviews[r] # None => ReviewFits(r)
  BY DEF DrawingsInv
<1>3. reviews \in [Reviews -> Drawn!ReviewRows \cup {None}] /\ filed \subseteq DrawingIds
  BY DEF DrawingsInv, Drawn!ShownInOwnOrder, Drawn!DrawingsTypeOK
<1>4. CASE Drawn!DeleteDrawing(i)
  <2>1. drawings' = [drawings EXCEPT ![i] = Gone] /\ RowShown(Gone) /\ ~Drawn!Kept(Gone)
    BY <1>4, DrawingFacts DEF Drawn!DeleteDrawing, RowShown, Drawn!Kept
  <2> QED
    BY <1>1, <1>3, <2>1, DrawingFacts, DrawingChanged
<1>5. ASSUME NEW d \in DrawnDeals \cup {None}, NEW o \in DrawnOrders \cup {None},
             NEW s \in {"pending", "approved"}, Drawn!AddDrawing(i, d, o, s)
      PROVE  DrawingsInv'
  <2>1. PICK x : x = [deal |-> d, order |-> o, status |-> s, shown |-> FALSE]
    OBVIOUS
  <2>2. x \in Drawn!DrawingRows /\ x.order = o /\ x.deal = d
    BY <2>1 DEF Drawn!DrawingRows
  <2>3. /\ drawings[i] = None /\ drawings' = [drawings EXCEPT ![i] = x]
        /\ o # None => Drawn!Kept(dealOf[o]) /\ d = None
    BY <1>5, <2>1 DEF Drawn!AddDrawing
  <2>4. RowShown(x)
    BY <2>2, <2>3, DrawingFacts DEF RowShown, Drawn!Kept, DrawingsInv
  <2>5. \A r \in Reviews : reviews[r] # None => reviews[r].drawing # i
    BY <1>2, <2>3 DEF ReviewFits
  <2> QED
    BY <1>1, <1>3, <2>2, <2>3, <2>4, <2>5, DrawingChanged
<1> QED
  BY <1>4, <1>5

(* A request reads a drawing, and what it will write. *)
LEMMA DrawingRead ==
  ASSUME FilesAssumption, DrawingsInv, NEW r \in Reviews, NEW i \in DrawingIds,
         Drawn!ReadToShow(r, i) \/ Drawn!ReadDrawing(r, i)
  PROVE  DrawingsInv'
<1>1. drawings[i] \in Drawn!DrawingRows /\ reviews[r] = None
        /\ UNCHANGED <<drawings, dealOf, filed>>
  BY DrawingTyped DEF Drawn!ReadToShow, Drawn!ReadDrawing
<1>2. PICK x \in Drawn!DrawingRows : x = drawings[i]
  BY <1>1
<1>3. RowShown(x) /\ dealOf \in [DrawnOrders -> DrawnDeals \cup {None, Gone}]
  BY <1>2, ShownRows DEF DrawingsInv
<1>4. PICK new \in Drawn!ReviewRows :
        /\ reviews' = [reviews EXCEPT ![r] = new] /\ new.drawing = i /\ new.row.deal = x.deal
        /\ OfOwnDeal(new.row)
        /\ new.kind = "show" /\ new.row.order # None => new.row.deal # None
  <2>1. CASE Drawn!ReadDrawing(r, i)
    <3>1. PICK new : new = [kind |-> "review", drawing |-> i, row |-> x]
      OBVIOUS
    <3>2. new \in Drawn!ReviewRows /\ new.kind = "review" /\ new.drawing = i /\ new.row = x
      BY <3>1 DEF Drawn!ReviewRows
    <3>3. reviews' = [reviews EXCEPT ![r] = new]
      BY <1>2, <2>1, <3>1 DEF Drawn!ReadDrawing
    <3>4. OfOwnDeal(x)
      BY <1>3 DEF RowShown, OfOwnDeal
    <3> QED
      BY <3>2, <3>3, <3>4
  <2>2. CASE Drawn!ReadToShow(r, i)
    <3>1. PICK sh \in BOOLEAN : sh = ~drawings[i].shown
      BY Zenon
    <3>2. PICK o : o = IF sh THEN Drawn!OrderOf(x.deal) ELSE None
      OBVIOUS
    <3>3. /\ o \in DrawnOrders \cup {None}
          /\ o # None => x.deal # None /\ dealOf[o] = x.deal
      BY <3>2 DEF Drawn!OrderOf
    <3>4. PICK row : row = [x EXCEPT !.shown = sh, !.order = o]
      OBVIOUS
    <3>5. row \in Drawn!DrawingRows /\ row.deal = x.deal /\ row.order = o
      <4>1. \A y \in Drawn!DrawingRows :
              [y EXCEPT !.shown = sh, !.order = o] \in Drawn!DrawingRows
              /\ [y EXCEPT !.shown = sh, !.order = o].deal = y.deal
              /\ [y EXCEPT !.shown = sh, !.order = o].order = o
        BY <3>1, <3>3 DEF Drawn!DrawingRows
      <4> QED
        BY <3>4, <4>1
    <3>6. PICK new : new = [kind |-> "show", drawing |-> i, row |-> row]
      OBVIOUS
    <3>7. new \in Drawn!ReviewRows /\ new.kind = "show" /\ new.drawing = i /\ new.row = row
      BY <3>5, <3>6 DEF Drawn!ReviewRows
    <3>8. reviews' = [reviews EXCEPT ![r] = new]
      BY <1>2, <2>2, <3>1, <3>2, <3>4, <3>6 DEF Drawn!ReadToShow
    <3>9. OfOwnDeal(row)
      BY <3>3, <3>5 DEF OfOwnDeal
    <3> QED
      BY <3>3, <3>5, <3>7, <3>8, <3>9
  <2> QED
    BY <2>1, <2>2
<1>5. /\ reviews' \in [Reviews -> Drawn!ReviewRows \cup {None}] /\ reviews'[r] = new
      /\ \A s \in Reviews \ {r} : reviews'[s] = reviews[s]
  BY <1>4 DEF DrawingsInv
<1>6. \A s \in Reviews : reviews[s] # None /\ reviews[s].drawing = i =>
        reviews[s].row.deal = x.deal
  BY <1>2, DrawingTyped DEF DrawingsInv, ReviewFits
<1>7. ASSUME NEW s \in Reviews, reviews'[s] # None
      PROVE  ReviewFits(s)'
  <2>1. CASE s = r
    <3>1. \A t \in Reviews : reviews'[t] # None /\ reviews'[t].drawing = i =>
            reviews'[t].row.deal = x.deal
      BY <1>4, <1>5, <1>6
    <3>2. drawings'[i] = x /\ x # None
      BY <1>1, <1>2, DrawingFacts
    <3>3. OfOwnDeal(reviews[s].row)'
      BY <1>1, <1>4, <1>5, <2>1 DEF OfOwnDeal
    <3> QED
      BY <1>4, <1>5, <2>1, <3>1, <3>2, <3>3 DEF ReviewFits
  <2>2. CASE s # r
    <3>1. reviews'[s] = reviews[s] /\ ReviewFits(s)
      BY <1>5, <1>7, <2>2 DEF DrawingsInv
    <3>2. OfOwnDeal(reviews[s].row)'
      BY <1>1, <3>1 DEF ReviewFits, OfOwnDeal
    <3>3. \A t \in Reviews : reviews'[t] # None /\ reviews'[t].drawing = reviews[s].drawing =>
            reviews'[t].row.deal = reviews[s].row.deal
      BY <1>4, <1>5, <1>6, <1>7, <3>1 DEF ReviewFits
    <3> QED
      BY <1>1, <3>1, <3>2, <3>3 DEF ReviewFits, Drawn!Kept
  <2> QED
    BY <2>1, <2>2
<1>8. \A j \in DrawingIds : RowShown(drawings[j])'
  BY <1>1, ShownRows DEF RowShown
<1> QED
  BY <1>1, <1>5, <1>7, <1>8, DrawingsFit
     DEF DrawingsInv, Drawn!ShownInOwnOrder, Drawn!DrawingsTypeOK

LEMMA ShownSaved ==
  ASSUME FilesAssumption, DrawingsInv, NEW r \in Reviews, Drawn!SaveShown(r)
  PROVE  DrawingsInv'
<1>1. /\ reviews[r] # None /\ reviews[r].kind = "show" /\ reviews' = [reviews EXCEPT ![r] = None]
      /\ UNCHANGED <<dealOf, filed>>
  BY DEF Drawn!SaveShown
<1>2. PICK i \in DrawingIds, row \in Drawn!DrawingRows : i = reviews[r].drawing
             /\ row = reviews[r].row
  BY <1>1, ReviewTyped
<1>3. ReviewFits(r)
  BY <1>1 DEF DrawingsInv
<1>4. /\ reviews' \in [Reviews -> Drawn!ReviewRows \cup {None}] /\ filed \subseteq DrawingIds
      /\ \A s \in Reviews : reviews'[s] \in {reviews[s], None}
      /\ drawings \in [DrawingIds -> Drawn!DrawingRows \cup {None, Gone}]
      /\ dealOf \in [DrawnOrders -> DrawnDeals \cup {None, Gone}]
  BY <1>1 DEF DrawingsInv, Drawn!ShownInOwnOrder, Drawn!DrawingsTypeOK
<1>5. \A s \in Reviews : reviews[s] # None /\ reviews[s].drawing = i /\ Drawn!Kept(drawings[i]) =>
        reviews[s].row.deal = drawings[i].deal
  BY DEF DrawingsInv, ReviewFits
<1>6. CASE Drawn!Kept(drawings[i]) /\ Drawn!Accepted(row)
  <2>1. PICK x \in Drawn!DrawingRows : x = drawings[i]
    BY <1>6, DrawingTyped
  <2>2. x.deal = row.deal
    BY <1>2, <1>3, <1>6, <2>1 DEF ReviewFits
  <2>3. PICK y : y = [x EXCEPT !.shown = row.shown, !.order = row.order]
    OBVIOUS
  <2>4. row.shown \in BOOLEAN /\ row.order \in DrawnOrders \cup {None}
    BY DEF Drawn!DrawingRows
  <2>5. y \in Drawn!DrawingRows /\ y.deal = x.deal /\ y.order = row.order
    <3>1. PICK sh \in BOOLEAN : sh = row.shown
      BY <2>4, Zenon
    <3>2. PICK o \in DrawnOrders \cup {None} : o = row.order
      BY <2>4
    <3>3. y = [x EXCEPT !.shown = sh, !.order = o]
      BY <2>3, <3>1, <3>2
    <3> QED
      BY <3>2, <3>3 DEF Drawn!DrawingRows
  <2>6. drawings' = [drawings EXCEPT ![i] = y]
    <3>1. drawings' = [drawings EXCEPT ![i].shown = row.shown, ![i].order = row.order]
      BY <1>2, <1>6 DEF Drawn!SaveShown
    <3> QED
      BY <1>4, <2>1, <2>3, <3>1
  <2>7. RowShown(y)
    <3>1. SUFFICES ASSUME row.order # None
                   PROVE  /\ dealOf[row.order] \in DrawnDeals
                          /\ row.deal # None => dealOf[row.order] = row.deal
      BY <2>2, <2>5 DEF RowShown
    <3>2. Drawn!Kept(dealOf[row.order]) /\ OfOwnDeal(row) /\ row.order \in DrawnOrders
      BY <1>2, <1>3, <1>6, <2>4, <3>1 DEF Drawn!Accepted, ReviewFits
    <3> QED
      BY <1>4, <3>1, <3>2 DEF Drawn!Kept, OfOwnDeal
  <2>8. \A s \in Reviews : reviews'[s] # None /\ reviews[s].drawing = i /\ Drawn!Kept(y) =>
          reviews[s].row.deal = y.deal
    BY <1>4, <1>5, <1>6, <2>1, <2>5
  <2>9. y = None => drawings[i] = None
    BY <2>5, DrawingFacts
  <2> QED
    BY <1>1, <1>4, <2>5, <2>6, <2>7, <2>8, <2>9, DrawingChanged
<1>7. CASE ~(Drawn!Kept(drawings[i]) /\ Drawn!Accepted(row))
  <2>1. drawings' = drawings
    BY <1>2, <1>7 DEF Drawn!SaveShown
  <2>2. drawings' = [drawings EXCEPT ![i] = drawings[i]] /\ RowShown(drawings[i])
    BY <1>4, <2>1, ShownRows
  <2>3. drawings[i] \in Drawn!DrawingRows \cup {None, Gone}
    BY <1>4
  <2>4. \A s \in Reviews : reviews'[s] # None /\ reviews[s].drawing = i
          /\ Drawn!Kept(drawings[i]) =>
          reviews[s].row.deal = drawings[i].deal
    BY <1>4, <1>5
  <2> QED
    BY <1>1, <1>4, <2>2, <2>3, <2>4, DrawingChanged
<1> QED
  BY <1>6, <1>7

LEMMA ReviewSaved ==
  ASSUME FilesAssumption, DrawingsInv, NEW r \in Reviews, NEW st \in {"approved", "rejected"},
         Drawn!SaveReview(r, st)
  PROVE  DrawingsInv'
<1>1. /\ reviews[r] # None /\ reviews' = [reviews EXCEPT ![r] = None]
      /\ UNCHANGED <<dealOf, filed>>
  BY DEF Drawn!SaveReview
<1>2. PICK i \in DrawingIds, old \in Drawn!DrawingRows : i = reviews[r].drawing
             /\ old = reviews[r].row
  BY <1>1, ReviewTyped
<1>3. ReviewFits(r)
  BY <1>1 DEF DrawingsInv
<1>4. /\ reviews' \in [Reviews -> Drawn!ReviewRows \cup {None}] /\ filed \subseteq DrawingIds
      /\ \A s \in Reviews : reviews'[s] \in {reviews[s], None}
      /\ drawings \in [DrawingIds -> Drawn!DrawingRows \cup {None, Gone}]
      /\ dealOf \in [DrawnOrders -> DrawnDeals \cup {None, Gone}]
  BY <1>1 DEF DrawingsInv, Drawn!ShownInOwnOrder, Drawn!DrawingsTypeOK
<1>5. PICK row : row = [old EXCEPT !.status = st]
  OBVIOUS
<1>6. row \in Drawn!DrawingRows /\ row.deal = old.deal /\ row.order = old.order
  <2>1. \A z \in Drawn!DrawingRows :
          /\ [z EXCEPT !.status = st] \in Drawn!DrawingRows
          /\ [z EXCEPT !.status = st].deal = z.deal
          /\ [z EXCEPT !.status = st].order = z.order
    BY DEF Drawn!DrawingRows
  <2> QED
    BY <1>5, <2>1
<1>7. CASE Drawn!Accepted(row)
  <2>1. drawings' = [drawings EXCEPT ![i] = row]
    BY <1>2, <1>5, <1>7 DEF Drawn!SaveReview
  <2>2. RowShown(row)
    <3>1. SUFFICES ASSUME row.order # None
                   PROVE  /\ dealOf[row.order] \in DrawnDeals
                          /\ row.deal # None => dealOf[row.order] = row.deal
      BY DEF RowShown
    <3>2. row.order \in DrawnOrders
      BY <1>6, <3>1, DrawingFields
    <3>3. Drawn!Kept(dealOf[row.order]) /\ OfOwnDeal(old)
      BY <1>2, <1>3, <1>7, <3>1 DEF Drawn!Accepted, ReviewFits
    <3> QED
      BY <1>4, <1>6, <3>1, <3>2, <3>3 DEF Drawn!Kept, OfOwnDeal
  <2>3. \A s \in Reviews : reviews'[s] # None /\ reviews[s].drawing = i /\ Drawn!Kept(row) =>
          reviews[s].row.deal = row.deal
    BY <1>2, <1>3, <1>4, <1>6 DEF ReviewFits
  <2>4. row = None => drawings[i] = None
    BY <1>6, DrawingFacts
  <2> QED
    BY <1>1, <1>4, <1>6, <2>1, <2>2, <2>3, <2>4, DrawingChanged
<1>8. CASE ~Drawn!Accepted(row)
  <2>1. drawings' = drawings
    BY <1>2, <1>5, <1>8 DEF Drawn!SaveReview
  <2>2. drawings' = [drawings EXCEPT ![i] = drawings[i]] /\ RowShown(drawings[i])
    BY <1>4, <2>1, ShownRows
  <2>3. drawings[i] \in Drawn!DrawingRows \cup {None, Gone}
    BY <1>4
  <2>4. \A s \in Reviews : reviews'[s] # None /\ reviews[s].drawing = i
          /\ Drawn!Kept(drawings[i]) =>
          reviews[s].row.deal = drawings[i].deal
    BY <1>4 DEF DrawingsInv, ReviewFits
  <2> QED
    BY <1>1, <1>4, <2>2, <2>3, <2>4, DrawingChanged
<1> QED
  BY <1>7, <1>8

LEMMA DrawingsInvStep ==
  ASSUME FilesAssumption, DrawingsInv, [Drawn!DrawingsNext]_drawingVars
  PROVE  DrawingsInv'
<1>1. CASE \E i \in DrawingIds : Drawn!PutFile(i) \/ Drawn!DeleteFile(i)
  BY <1>1
     DEF Drawn!PutFile, Drawn!DeleteFile, DrawingsInv, ReviewFits,
         OfOwnDeal, Drawn!ShownInOwnOrder,
              Drawn!DrawingsTypeOK, Drawn!Kept
<1>2. CASE UNCHANGED drawingVars
  BY <1>2
     DEF drawingVars, DrawingsInv, ReviewFits, OfOwnDeal,
         Drawn!ShownInOwnOrder,
              Drawn!DrawingsTypeOK, Drawn!Kept
<1>3. CASE \E r \in Reviews : \/ Drawn!SaveShown(r)
                              \/ \E st \in {"approved", "rejected"} : Drawn!SaveReview(r, st)
  BY <1>3, ShownSaved, ReviewSaved
<1> QED
  BY <1>1, <1>2, <1>3, OrdersChanged, DrawingAddedOrDeleted, DrawingRead
     DEF Drawn!DrawingsNext

-----------------------------------------------------------------------------
(* Sums of quantities of which some are negative: those that are not count    *)
(* nothing among the units of a total.                                      *)
Net(f, S) == Total(f, S) - Total([x \in S |-> -f[x]], S)

LEMMA IntegerUnion ==
  ASSUME NEW A, IsFiniteSet(A), NEW B, IsFiniteSet(B), A \cap B = {},
         NEW f, \A x \in A \cup B : f[x] \in Int
  PROVE  Total(f, A \cup B) = Total(f, A) + Total(f, B)
<1> DEFINE g == Positive(f, A \cup B)
<1>1. /\ Total(f, A \cup B) = Total(g, A \cup B) /\ \A x \in A \cup B : g[x] \in Nat
  BY PositiveUnits
<1>2. Total(f, A) = Total(Positive(f, A), A) /\ Total(f, B) = Total(Positive(f, B), B)
  BY PositiveUnits
<1>3. /\ \A x \in A : Positive(f, A)[x] = g[x]
      /\ \A x \in B : Positive(f, B)[x] = g[x]
  BY DEF Positive
<1> HIDE DEF g
<1>4. Total(Positive(f, A), A) = Total(g, A) /\ Total(Positive(f, B), B) = Total(g, B)
  BY <1>3, TotalCongruence
<1>5. IsFiniteSet(A \cup B)
  BY FS_Union
<1>6. PICK m \in Nat : \A x \in A \cup B : g[x] \in 0..m
  BY <1>1, <1>5, RowsBounded
<1>7. Total(g, A \cup B) = Total(g, A) + Total(g, B)
  BY <1>6, TotalUnion
<1> QED
  BY <1>1, <1>2, <1>4, <1>7

LEMMA NetTyped ==
  ASSUME NEW S, IsFiniteSet(S), NEW f, \A x \in S : f[x] \in Int
  PROVE  Net(f, S) \in Int
<1> DEFINE g == [x \in S |-> -f[x]]
<1>1. \A x \in S : g[x] \in Int
  OBVIOUS
<1> HIDE DEF g
<1>2. Total(f, S) \in Nat /\ Total(g, S) \in Nat
  BY <1>1, IntegerUnits
<1>3. Net(f, S) = Total(f, S) - Total(g, S)
  BY DEF Net, g
<1> QED
  BY <1>2, <1>3

LEMMA NetCongruence ==
  ASSUME NEW S, NEW f, NEW g, \A x \in S : f[x] = g[x]
  PROVE  Net(f, S) = Net(g, S)
<1>1. [x \in S |-> -f[x]] = [x \in S |-> -g[x]]
  OBVIOUS
<1>2. Total(f, S) = Total(g, S)
  BY TotalCongruence
<1> QED
  BY <1>1, <1>2 DEF Net

LEMMA NetEmpty ==
  ASSUME NEW f
  PROVE  Net(f, {}) = 0
<1>1. Total(f, {}) = 0 /\ Total([x \in {} |-> -f[x]], {}) = 0
  BY TotalEmpty
<1> QED
  BY <1>1 DEF Net

LEMMA NetUnion ==
  ASSUME NEW A, IsFiniteSet(A), NEW B, IsFiniteSet(B), A \cap B = {},
         NEW f, \A x \in A \cup B : f[x] \in Int
  PROVE  Net(f, A \cup B) = Net(f, A) + Net(f, B)
<1> DEFINE g == [x \in A \cup B |-> -f[x]]
           gA == [x \in A |-> -f[x]]
           gB == [x \in B |-> -f[x]]
<1>1. /\ \A x \in A \cup B : g[x] \in Int
      /\ \A x \in A : g[x] = gA[x]
      /\ \A x \in B : g[x] = gB[x]
  OBVIOUS
<1>2. /\ Net(f, A \cup B) = Total(f, A \cup B) - Total(g, A \cup B)
      /\ Net(f, A) = Total(f, A) - Total(gA, A)
      /\ Net(f, B) = Total(f, B) - Total(gB, B)
  BY DEF Net
<1> HIDE DEF g, gA, gB
<1>3. Total(g, A) = Total(gA, A) /\ Total(g, B) = Total(gB, B)
  BY <1>1, TotalCongruence
<1>4. /\ Total(f, A \cup B) = Total(f, A) + Total(f, B)
      /\ Total(g, A \cup B) = Total(g, A) + Total(g, B)
  BY <1>1, IntegerUnion
<1>5. /\ Total(f, A) \in Nat /\ Total(f, B) \in Nat /\ Total(g, A) \in Nat /\ Total(g, B) \in Nat
  BY <1>1, IntegerUnits
<1> QED
  BY <1>2, <1>3, <1>4, <1>5

LEMMA NetRenamed ==
  ASSUME NEW S, IsFiniteSet(S), NEW T, NEW h \in Bijection(S, T), NEW f, NEW g,
         \A n \in S : g[n] \in Int, \A n \in S : f[h[n]] = g[n]
  PROVE  Net(f, T) = Net(g, S)
<1> DEFINE fT == [x \in T |-> -f[x]]
           gS == [n \in S |-> -g[n]]
<1>1. Total(f, T) = Total(g, S)
  BY TotalRenamed
<1>2. (\A n \in S : gS[n] \in Int) /\ \A n \in S : fT[h[n]] = gS[n]
  BY DEF Bijection, Injection
<1>3. Net(f, T) = Total(f, T) - Total(fT, T) /\ Net(g, S) = Total(g, S) - Total(gS, S)
  BY DEF Net
<1> HIDE DEF fT, gS
<1>4. Total(fT, T) = Total(gS, S)
  BY <1>2, TotalRenamed
<1> QED
  BY <1>1, <1>3, <1>4

-----------------------------------------------------------------------------
(* Barcode scans: batches that add to the stock rows of their skus.         *)
LEMMA ScanFacts ==
  ASSUME ScansAssumption
  PROVE  /\ IsFiniteSet(Batches) /\ Skus \subseteq Nat /\ DeltasScanned \subseteq Int
         /\ MaxScans \in Nat /\ SkuOfItem \in [Items -> Skus]
BY DEF ScansAssumption, Scanned!ScansConstants, Scanned!IsFiniteSet, IsFiniteSet

LEMMA ScanSums ==
  ASSUME NEW f, NEW S
  PROVE  Scanned!NetTotal(f, S) = Net(f, S)
BY DEF Scanned!NetTotal, Net, Scanned!Total, Scanned!Units, Scanned!Cardinality,
       Total, Units, Cardinality

(* The scans of a batch. *)
Lists == UNION {[1..len -> Scanned!Scan] : len \in 0..MaxScans}

LEMMA ScansListed ==
  ASSUME ScansAssumption, NEW scans \in Lists
  PROVE  /\ IsFiniteSet(DOMAIN scans) /\ DOMAIN scans \subseteq 1..MaxScans
         /\ \A n \in DOMAIN scans : scans[n][1] \in Skus /\ scans[n][2] \in Int
<1>1. PICK len \in 0..MaxScans : scans \in [1..len -> Scanned!Scan]
  BY DEF Lists
<1>2. len \in Nat /\ len <= MaxScans /\ MaxScans \in Nat
  BY <1>1, ScanFacts
<1>3. IsFiniteSet(1..len)
  BY <1>2, Counting
<1>4. DOMAIN scans = 1..len /\ 1..len \subseteq 1..MaxScans
  BY <1>1, <1>2
<1>5. \A n \in 1..len : scans[n][1] \in Skus /\ scans[n][2] \in DeltasScanned
  BY <1>1 DEF Scanned!Scan
<1> QED
  BY <1>3, <1>4, <1>5, ScanFacts

LEMMA DeltaTyped ==
  ASSUME ScansAssumption, NEW scans \in Lists, NEW sku
  PROVE  /\ Scanned!DeltaOf(scans, sku) \in Int /\ IsFiniteSet(Scanned!OfSku(scans, sku))
         /\ Scanned!DeltaOf(scans, sku) =
            Net([n \in DOMAIN scans |-> scans[n][2]], Scanned!OfSku(scans, sku))
         /\ Scanned!OfSku(scans, sku) = {} => Scanned!DeltaOf(scans, sku) = 0
<1> DEFINE f == [n \in DOMAIN scans |-> scans[n][2]]
           S == Scanned!OfSku(scans, sku)
<1>1. S \in SUBSET DOMAIN scans /\ IsFiniteSet(S)
  BY ScansListed, FS_Subset DEF Scanned!OfSku
<1>2. \A n \in S : f[n] \in Int
  BY <1>1, ScansListed
<1>3. Scanned!DeltaOf(scans, sku) = Net(f, S)
  BY ScanSums DEF Scanned!DeltaOf
<1> HIDE DEF f
<1>4. Net(f, S) \in Int
  BY <1>1, <1>2, NetTyped
<1>5. S = {} => Net(f, S) = 0
  BY NetEmpty
<1> QED
  BY <1>1, <1>3, <1>4, <1>5 DEF f

(* What the proofs about Scans need beside its properties: a batch under    *)
(* way has written the rows of the first of its skus, in their order, and    *)
(* some of those of the next, and nobody else changes them; a row it has     *)
(* written will show all of its scans of that sku.                          *)

BatchFits(b) ==
  /\ batch[b].left \subseteq Scanned!SkusOf(batch[b].scans)
  /\ \A done \in Scanned!Written(b), sku \in batch[b].left : done < sku
  /\ DOMAIN batch[b].wrote \subseteq Items
  /\ \A i \in DOMAIN batch[b].wrote :
       SkuOfItem[i] \in Scanned!Written(b) \cup Scanned!NextSku(batch[b].left)
  /\ \A i \in Items : SkuOfItem[i] \in Scanned!Written(b) => i \in DOMAIN batch[b].wrote
  /\ \A i \in DOMAIN batch[b].wrote :
       batch[b].wrote[i] = quantity[i] + Scanned!DeltaOf(batch[b].scans, SkuOfItem[i])

ScansInv ==
  /\ quantity \in [Items -> Int] /\ batch \in [Batches -> Scanned!BatchRows]
  /\ \A b \in Batches : batch[b].step = "updating" => BatchFits(b)
  /\ \A b \in Batches, c \in Batches : b # c => Scanned!Locked(b) \cap Scanned!Locked(c) = {}
  /\ ledger \subseteq Batches \X (1..MaxScans)
  /\ \A row \in ledger : /\ batch[row[1]].step = "done"
                        /\ row[2] \in DOMAIN batch[row[1]].scans
  /\ Scanned!LedgerExplainsStock

LEMMA BatchTyped ==
  ASSUME ScansInv, NEW b \in Batches
  PROVE  /\ batch[b].step \in {"new", "updating", "done", "failed"} /\ batch[b].scans \in Lists
         /\ batch[b].left \in SUBSET Skus
         /\ batch[b].wrote \in UNION {[its -> Int] : its \in SUBSET Items}
         /\ batch[b] = [step |-> batch[b].step, scans |-> batch[b].scans,
                        left |-> batch[b].left, wrote |-> batch[b].wrote]
<1>1. batch[b] \in Scanned!BatchRows
  BY DEF ScansInv
<1> QED
  BY <1>1 DEF Scanned!BatchRows, Lists

LEMMA ScansInvInit ==
  ASSUME ScansAssumption, Scanned!ScansInit
  PROVE  ScansInv
<1>1. /\ quantity = [i \in Items |-> 0] /\ ledger = {}
      /\ batch = [b \in Batches |-> [step |-> "new", scans |-> <<>>, left |-> {}, wrote |-> <<>>]]
  BY DEF Scanned!ScansInit
<1>2. <<>> \in [1..0 -> Scanned!Scan] /\ 0 \in 0..MaxScans
  BY ScanFacts
<1>3. <<>> \in UNION {[1..len -> Scanned!Scan] : len \in 0..MaxScans}
  BY <1>2
<1>4. <<>> \in [{} -> Int]
  OBVIOUS
<1>5. <<>> \in UNION {[its -> Int] : its \in SUBSET Items}
  BY <1>4
<1>6. batch \in [Batches -> Scanned!BatchRows]
  BY <1>1, <1>3, <1>5 DEF Scanned!BatchRows
<1>7. Scanned!LedgerExplainsStock
  <2>1. SUFFICES ASSUME NEW i \in Items
                 PROVE  quantity[i] =
                          Scanned!NetTotal([row \in ledger |-> Scanned!ScanOf(row)[2]],
                            Scanned!LedgerOf(SkuOfItem[i]))
    BY DEF Scanned!LedgerExplainsStock
  <2>2. Scanned!LedgerOf(SkuOfItem[i]) = {}
    BY <1>1 DEF Scanned!LedgerOf
  <2>3. Scanned!NetTotal([row \in ledger |-> Scanned!ScanOf(row)[2]], {}) = 0
    BY ScanSums, NetEmpty
  <2> QED
    BY <1>1, <2>2, <2>3
<1> QED
  BY <1>1, <1>6, <1>7 DEF ScansInv, Scanned!Locked

(* While the ledger and the stock stay, and the scans that it names. *)
LEMMA LedgerKept ==
  ASSUME ScansInv, UNCHANGED <<quantity, ledger>>,
         \A row \in ledger : batch'[row[1]].scans = batch[row[1]].scans
  PROVE  Scanned!LedgerExplainsStock'
<1>1. \A row \in ledger : Scanned!ScanOf(row)' = Scanned!ScanOf(row)
  BY DEF Scanned!ScanOf
<1>2. [row \in ledger |-> Scanned!ScanOf(row)[2]]' = [row \in ledger |-> Scanned!ScanOf(row)[2]]
  BY <1>1
<1>3. \A sku : Scanned!LedgerOf(sku)' = Scanned!LedgerOf(sku)
  BY <1>1 DEF Scanned!LedgerOf
<1> SUFFICES ASSUME NEW i \in Items
             PROVE  (quantity[i] =
                      Scanned!NetTotal([row \in ledger |-> Scanned!ScanOf(row)[2]],
                        Scanned!LedgerOf(SkuOfItem[i])))'
  BY DEF Scanned!LedgerExplainsStock
<1>4. quantity[i] = Scanned!NetTotal([row \in ledger |-> Scanned!ScanOf(row)[2]],
      Scanned!LedgerOf(SkuOfItem[i]))
  BY DEF ScansInv, Scanned!LedgerExplainsStock
<1>5. quantity[i] = Net([row \in ledger |-> Scanned!ScanOf(row)[2]], Scanned!LedgerOf(SkuOfItem[i]))
  BY <1>4, ScanSums
<1>6. quantity'[i] = Net([row \in ledger |-> Scanned!ScanOf(row)[2]]',
      Scanned!LedgerOf(SkuOfItem[i])')
  BY <1>2, <1>3, <1>5
<1> QED
  BY <1>6, ScanSums

(* One batch goes on, and the others and the stock stay as they are. *)
LEMMA BatchGoesOn ==
  ASSUME ScansAssumption, ScansInv, NEW b \in Batches, NEW new \in Scanned!BatchRows,
         batch' = [batch EXCEPT ![b] = new], UNCHANGED <<quantity, ledger>>,
         batch[b].step # "done", new.step # "updating" \/ BatchFits(b)',
         \A c \in Batches \ {b} : Scanned!Locked(b)' \cap Scanned!Locked(c) = {}
  PROVE  ScansInv'
<1>1. /\ batch' \in [Batches -> Scanned!BatchRows] /\ batch'[b] = new
      /\ \A c \in Batches \ {b} : batch'[c] = batch[c]
  BY DEF ScansInv
<1>2. ASSUME NEW row \in ledger
      PROVE  /\ row[1] \in Batches /\ batch[row[1]].step = "done" /\ batch'[row[1]] = batch[row[1]]
             /\ row[2] \in DOMAIN batch[row[1]].scans
  <2>1. row[1] \in Batches /\ batch[row[1]].step = "done" /\ row[2] \in DOMAIN batch[row[1]].scans
    BY DEF ScansInv
  <2> QED
    BY <1>1, <2>1
<1>3. Scanned!LedgerExplainsStock'
  BY <1>2, LedgerKept
<1>4. \A c \in Batches \ {b} : Scanned!Locked(c)' = Scanned!Locked(c)
        /\ (BatchFits(c) => BatchFits(c)')
  BY <1>1 DEF Scanned!Locked, BatchFits, Scanned!Written
<1>5. \A c \in Batches, d \in Batches : c # d => Scanned!Locked(c)' \cap Scanned!Locked(d)' = {}
  <2>1. \A c \in Batches \ {b}, d \in Batches \ {b} : c # d =>
          Scanned!Locked(c)' \cap Scanned!Locked(d)' = {}
    BY <1>4 DEF ScansInv
  <2>2. \A c \in Batches \ {b} : Scanned!Locked(b)' \cap Scanned!Locked(c)' = {}
          /\ Scanned!Locked(c)' \cap Scanned!Locked(b)' = {}
    BY <1>4
  <2> QED
    BY <2>1, <2>2
<1>6. \A c \in Batches : batch'[c].step = "updating" => BatchFits(c)'
  BY <1>1, <1>4 DEF ScansInv
<1> QED
  BY <1>1, <1>2, <1>3, <1>5, <1>6 DEF ScansInv

LEMMA BatchStarted ==
  ASSUME ScansAssumption, ScansInv, NEW b \in Batches, NEW len \in 1..MaxScans,
         NEW scans \in [1..len -> Scanned!Scan], Scanned!StartBatch(b, scans)
  PROVE  ScansInv'
<1>1. len \in 0..MaxScans
  BY ScanFacts
<1>2. scans \in Lists
  BY <1>1 DEF Lists
<1>3. PICK new : new = [step |-> "updating", scans |-> scans, left |-> Scanned!SkusOf(scans),
           wrote |-> <<>>]
  OBVIOUS
<1>4. Scanned!SkusOf(scans) \in SUBSET Skus
  BY <1>2, ScansListed DEF Scanned!SkusOf
<1>5. <<>> \in UNION {[its -> Int] : its \in SUBSET Items}
  <2>1. <<>> \in [{} -> Int]
    OBVIOUS
  <2> QED
    BY <2>1
<1>6. new \in Scanned!BatchRows /\ new.step = "updating" /\ new.scans = scans
        /\ new.left = Scanned!SkusOf(scans)
      /\ new.wrote = <<>>
  BY <1>2, <1>3, <1>4, <1>5 DEF Scanned!BatchRows, Lists
<1>7. batch[b].step = "new" /\ batch' = [batch EXCEPT ![b] = new] /\ UNCHANGED <<quantity, ledger>>
  BY <1>3 DEF Scanned!StartBatch
<1>8. batch'[b] = new
  BY <1>7 DEF ScansInv
<1>9. DOMAIN new.wrote = {}
  BY <1>6
<1>10. BatchFits(b)'
  BY <1>6, <1>8, <1>9 DEF BatchFits, Scanned!Written
<1>11. Scanned!Locked(b)' = {}
  BY <1>8, <1>9 DEF Scanned!Locked
<1> QED
  BY <1>6, <1>7, <1>10, <1>11, BatchGoesOn

LEMMA RowUpdated ==
  ASSUME ScansAssumption, ScansInv, NEW b \in Batches, Scanned!UpdateRow(b)
  PROVE  ScansInv'
<1>1. batch[b].step = "updating" /\ BatchFits(b)
  BY DEF Scanned!UpdateRow, ScansInv
<1>2. PICK scans, left, wrote :
        /\ scans = batch[b].scans /\ left = batch[b].left /\ wrote = batch[b].wrote
        /\ batch[b] = [step |-> "updating", scans |-> scans, left |-> left, wrote |-> wrote]
  BY <1>1, BatchTyped
<1>3. scans \in Lists /\ left \in SUBSET Skus
        /\ wrote \in UNION {[its -> Int] : its \in SUBSET Items}
  BY <1>2, BatchTyped
<1>4. PICK sku \in Scanned!NextSku(left) : \E i \in Scanned!RowsOf(sku) \ Scanned!Locked(b) :
        /\ Scanned!Free(b, i) /\ UNCHANGED <<quantity, ledger>>
        /\ batch' = [batch EXCEPT ![b].wrote = [k \in DOMAIN @ \cup {i} |->
                       IF k = i THEN quantity[i] + Scanned!DeltaOf(batch[b].scans, sku)
                       ELSE @[k]]]
  BY <1>2 DEF Scanned!UpdateRow
<1>5. PICK i \in Scanned!RowsOf(sku) \ Scanned!Locked(b) :
        /\ Scanned!Free(b, i) /\ UNCHANGED <<quantity, ledger>>
        /\ batch' = [batch EXCEPT ![b].wrote = [k \in DOMAIN @ \cup {i} |->
                       IF k = i THEN quantity[i] + Scanned!DeltaOf(batch[b].scans, sku)
                       ELSE @[k]]]
  BY <1>4
<1>6. i \in Items /\ SkuOfItem[i] = sku
  BY <1>5 DEF Scanned!RowsOf
<1>7. PICK after : after = [k \in DOMAIN wrote \cup {i} |->
                              IF k = i THEN quantity[i] + Scanned!DeltaOf(scans, sku) ELSE wrote[k]]
  OBVIOUS
<1>8. after \in UNION {[its -> Int] : its \in SUBSET Items}
  <2>1. Scanned!DeltaOf(scans, sku) \in Int
    BY <1>3, DeltaTyped
  <2>2. PICK its \in SUBSET Items : wrote \in [its -> Int]
    BY <1>3
  <2>3. quantity \in [Items -> Int]
    BY DEF ScansInv
  <2>4. after \in [its \cup {i} -> Int]
    BY <1>6, <1>7, <2>1, <2>2, <2>3
  <2>5. its \cup {i} \in SUBSET Items
    BY <1>6
  <2> QED
    BY <2>4, <2>5
<1>9. PICK new : new = [step |-> "updating", scans |-> scans, left |-> left, wrote |-> after]
  OBVIOUS
<1>10. new \in Scanned!BatchRows /\ new.scans = scans /\ new.left = left /\ new.wrote = after
      /\ new.step = "updating"
  BY <1>3, <1>8, <1>9 DEF Scanned!BatchRows, Lists
<1>11. batch' = [batch EXCEPT ![b] = new]
  <2>1. batch' = [batch EXCEPT ![b].wrote = after]
    BY <1>2, <1>5, <1>7
  <2>2. batch \in [Batches -> Scanned!BatchRows]
    BY DEF ScansInv
  <2>3. PICK old : old = [step |-> "updating", scans |-> scans, left |-> left, wrote |-> wrote]
    OBVIOUS
  <2>4. [old EXCEPT !.wrote = after] = new
    BY <1>9, <2>3
  <2>5. batch' = [batch EXCEPT ![b] = [old EXCEPT !.wrote = after]]
    BY <1>2, <2>1, <2>2, <2>3
  <2> QED
    BY <2>4, <2>5
<1>12. batch'[b] = new
  BY <1>11 DEF ScansInv
<1>13. /\ Scanned!Written(b)' = Scanned!Written(b) /\ Scanned!NextSku(left)' = Scanned!NextSku(left)
       /\ left \subseteq Scanned!SkusOf(scans)
       /\ \A done \in Scanned!Written(b), t \in left : done < t
       /\ DOMAIN wrote \subseteq Items
       /\ \A k \in DOMAIN wrote : SkuOfItem[k] \in Scanned!Written(b) \cup Scanned!NextSku(left)
       /\ \A k \in Items : SkuOfItem[k] \in Scanned!Written(b) => k \in DOMAIN wrote
       /\ \A k \in DOMAIN wrote : wrote[k] = quantity[k] + Scanned!DeltaOf(scans, SkuOfItem[k])
  BY <1>1, <1>2, <1>10, <1>12 DEF BatchFits, Scanned!Written, Scanned!NextSku
<1>14. BatchFits(b)'
  <2>1. /\ batch'[b].left \subseteq Scanned!SkusOf(batch'[b].scans)
        /\ \A done \in Scanned!Written(b)', t \in batch'[b].left : done < t
    BY <1>10, <1>12, <1>13
  <2>0. /\ DOMAIN after = DOMAIN wrote \cup {i}
        /\ after[i] = quantity[i] + Scanned!DeltaOf(scans, sku)
        /\ \A k \in DOMAIN wrote : k # i => after[k] = wrote[k]
    BY <1>7
  <2>7. batch'[b].wrote = after /\ batch'[b].left = left /\ batch'[b].scans = scans
    BY <1>10, <1>12
  <2>2. /\ DOMAIN batch'[b].wrote \subseteq Items
        /\ \A k \in DOMAIN batch'[b].wrote :
             SkuOfItem[k] \in Scanned!Written(b)' \cup Scanned!NextSku(batch'[b].left)
        /\ \A k \in Items : SkuOfItem[k] \in Scanned!Written(b)' => k \in DOMAIN batch'[b].wrote
    <3>1. DOMAIN after \subseteq Items
      BY <1>6, <1>13, <2>0
    <3>2. \A k \in DOMAIN after : SkuOfItem[k] \in Scanned!Written(b) \cup Scanned!NextSku(left)
      BY <1>4, <1>6, <1>13, <2>0
    <3>3. \A k \in Items : SkuOfItem[k] \in Scanned!Written(b) => k \in DOMAIN after
      BY <1>13, <2>0
    <3> QED
      BY <1>13, <2>7, <3>1, <3>2, <3>3
  <2>3. \A k \in DOMAIN batch'[b].wrote :
          batch'[b].wrote[k] = quantity'[k] + Scanned!DeltaOf(batch'[b].scans, SkuOfItem[k])
    <3>1. \A k \in DOMAIN after : after[k] = quantity[k] + Scanned!DeltaOf(scans, SkuOfItem[k])
      BY <1>6, <1>13, <2>0
    <3> QED
      BY <1>5, <2>7, <3>1
  <2>4. Scanned!NextSku(batch'[b].left) = Scanned!NextSku(batch[b].left)'
    BY DEF Scanned!NextSku
  <2> QED
    BY <2>1, <2>2, <2>3, <2>4 DEF BatchFits
<1>15. Scanned!Locked(b)' = Scanned!Locked(b) \cup {i}
  BY <1>1, <1>2, <1>7, <1>10, <1>12 DEF Scanned!Locked
<1>16. \A c \in Batches \ {b} : Scanned!Locked(b)' \cap Scanned!Locked(c) = {}
  BY <1>5, <1>15 DEF Scanned!Free, ScansInv
<1> QED
  BY <1>1, <1>5, <1>10, <1>11, <1>14, <1>16, BatchGoesOn

LEMMA UpdateEnded ==
  ASSUME ScansAssumption, ScansInv, NEW b \in Batches, Scanned!EndUpdate(b)
  PROVE  ScansInv'
<1>1. batch[b].step = "updating" /\ BatchFits(b)
  BY DEF Scanned!EndUpdate, ScansInv
<1>2. PICK scans, left, wrote :
        /\ scans = batch[b].scans /\ left = batch[b].left /\ wrote = batch[b].wrote
        /\ batch[b] = [step |-> "updating", scans |-> scans, left |-> left, wrote |-> wrote]
  BY <1>1, BatchTyped
<1>3. scans \in Lists /\ left \in SUBSET Skus
        /\ wrote \in UNION {[its -> Int] : its \in SUBSET Items}
  BY <1>2, BatchTyped
<1>4. PICK sku \in Scanned!NextSku(left) :
        /\ Scanned!RowsOf(sku) \subseteq Scanned!Locked(b) /\ UNCHANGED <<quantity, ledger>>
        /\ batch' = [batch EXCEPT ![b].left = @ \ {sku}]
  BY <1>2 DEF Scanned!EndUpdate
<1>5. sku \in left /\ \A t \in left : sku <= t
  BY DEF Scanned!NextSku
<1>6. PICK new : new = [step |-> "updating", scans |-> scans, left |-> left \ {sku},
           wrote |-> wrote]
  OBVIOUS
<1>7. new \in Scanned!BatchRows /\ new.scans = scans /\ new.left = left \ {sku} /\ new.wrote = wrote
      /\ new.step = "updating"
  BY <1>3, <1>6 DEF Scanned!BatchRows, Lists
<1>8. batch' = [batch EXCEPT ![b] = new]
  <2>1. batch' = [batch EXCEPT ![b].left = left \ {sku}]
    BY <1>2, <1>4
  <2>2. PICK old : old = [step |-> "updating", scans |-> scans, left |-> left, wrote |-> wrote]
    OBVIOUS
  <2>3. [old EXCEPT !.left = left \ {sku}] = new
    BY <1>6, <2>2
  <2>4. batch' = [batch EXCEPT ![b] = [old EXCEPT !.left = left \ {sku}]]
    BY <1>2, <2>1, <2>2 DEF ScansInv
  <2> QED
    BY <2>3, <2>4
<1>9. batch'[b] = new
  BY <1>8 DEF ScansInv
<1>10. /\ Scanned!Written(b)' = Scanned!Written(b) \cup {sku}
       /\ left \subseteq Scanned!SkusOf(scans)
       /\ \A done \in Scanned!Written(b), t \in left : done < t
       /\ DOMAIN wrote \subseteq Items
       /\ \A k \in DOMAIN wrote : SkuOfItem[k] \in Scanned!Written(b) \cup Scanned!NextSku(left)
       /\ \A k \in Items : SkuOfItem[k] \in Scanned!Written(b) => k \in DOMAIN wrote
       /\ \A k \in DOMAIN wrote : wrote[k] = quantity[k] + Scanned!DeltaOf(scans, SkuOfItem[k])
  BY <1>1, <1>2, <1>5, <1>7, <1>9 DEF BatchFits, Scanned!Written
<1>11. \A t \in left : t \in Nat
  BY <1>3, ScanFacts
<1>12. Scanned!NextSku(left) = {sku}
  BY <1>5, <1>11 DEF Scanned!NextSku
<1>13. BatchFits(b)'
  <2>1. batch'[b].left \subseteq Scanned!SkusOf(batch'[b].scans)
    BY <1>7, <1>9, <1>10
  <2>2. \A done \in Scanned!Written(b)', t \in batch'[b].left : done < t
    <3>1. SUFFICES ASSUME NEW done \in Scanned!Written(b) \cup {sku}, NEW t \in left, t # sku
                   PROVE  done < t
      BY <1>7, <1>9, <1>10
    <3>2. t \in Nat /\ sku \in Nat /\ sku <= t
      BY <1>5, <1>11
    <3> QED
      BY <1>10, <3>1, <3>2
  <2>3. /\ DOMAIN batch'[b].wrote \subseteq Items
        /\ \A k \in DOMAIN batch'[b].wrote : SkuOfItem[k] \in Scanned!Written(b)'
        /\ \A k \in Items : SkuOfItem[k] \in Scanned!Written(b)' => k \in DOMAIN batch'[b].wrote
    <3>1. \A k \in Items : SkuOfItem[k] = sku => k \in DOMAIN wrote
      BY <1>1, <1>2, <1>4 DEF Scanned!RowsOf, Scanned!Locked
    <3> QED
      BY <1>7, <1>9, <1>10, <1>12, <3>1
  <2>4. \A k \in DOMAIN batch'[b].wrote :
          batch'[b].wrote[k] = quantity'[k] + Scanned!DeltaOf(batch'[b].scans, SkuOfItem[k])
    BY <1>4, <1>7, <1>9, <1>10
  <2> QED
    BY <2>1, <2>2, <2>3, <2>4 DEF BatchFits
<1>14. Scanned!Locked(b)' = Scanned!Locked(b)
  BY <1>1, <1>2, <1>7, <1>9 DEF Scanned!Locked
<1>15. \A c \in Batches \ {b} : Scanned!Locked(b)' \cap Scanned!Locked(c) = {}
  BY <1>14 DEF ScansInv
<1> QED
  BY <1>1, <1>4, <1>7, <1>8, <1>13, <1>15, BatchGoesOn

LEMMA BatchRolledBack ==
  ASSUME ScansAssumption, ScansInv, NEW b \in Batches, Scanned!RollBack(b)
  PROVE  ScansInv'
<1>1. batch[b].step = "updating" /\ UNCHANGED <<quantity, ledger>>
  BY DEF Scanned!RollBack
<1>2. PICK new : new = [step |-> "failed", scans |-> batch[b].scans, left |-> batch[b].left,
                        wrote |-> batch[b].wrote]
  OBVIOUS
<1>3. new \in Scanned!BatchRows /\ new.step = "failed"
  BY <1>2, BatchTyped DEF Scanned!BatchRows, Lists
<1>4. batch' = [batch EXCEPT ![b] = new]
  <2>1. batch' = [batch EXCEPT ![b].step = "failed"] /\ batch \in [Batches -> Scanned!BatchRows]
    BY DEF Scanned!RollBack, ScansInv
  <2>2. PICK old : /\ old = batch[b]
                   /\ old = [step |-> batch[b].step, scans |-> batch[b].scans,
                             left |-> batch[b].left, wrote |-> batch[b].wrote]
    BY BatchTyped
  <2>3. [old EXCEPT !.step = "failed"] = new
    BY <1>2, <2>2
  <2>4. batch' = [batch EXCEPT ![b] = [old EXCEPT !.step = "failed"]]
    BY <2>1, <2>2
  <2> QED
    BY <2>3, <2>4
<1>5. Scanned!Locked(b)' = {}
  BY <1>3, <1>4 DEF Scanned!Locked, ScansInv
<1> QED
  BY <1>1, <1>3, <1>4, <1>5, BatchGoesOn

(* A batch commits: its scans join the ledger, and the rows it has written  *)
(* become those that everybody sees.                                        *)
LEMMA CommitFacts ==
  ASSUME ScansAssumption, ScansInv, NEW b \in Batches, Scanned!CommitBatch(b)
  PROVE  /\ batch' \in [Batches -> Scanned!BatchRows] /\ batch'[b].step = "done"
         /\ batch'[b].scans = batch[b].scans /\ batch[b].scans \in Lists
         /\ \A c \in Batches \ {b} : batch'[c] = batch[c]
         /\ quantity' \in [Items -> Int]
         /\ \A i \in Items :
            quantity'[i] = quantity[i] + Scanned!DeltaOf(batch[b].scans, SkuOfItem[i])
         /\ \A i \in Items \ Scanned!Locked(b) : quantity'[i] = quantity[i]
<1>1. batch[b].step = "updating" /\ batch[b].left = {} /\ BatchFits(b)
  BY DEF Scanned!CommitBatch, ScansInv
<1>2. PICK scans, wrote :
        /\ scans = batch[b].scans /\ wrote = batch[b].wrote
        /\ batch[b] = [step |-> "updating", scans |-> scans, left |-> {}, wrote |-> wrote]
  BY <1>1, BatchTyped
<1>3. scans \in Lists /\ wrote \in UNION {[its -> Int] : its \in SUBSET Items}
  BY <1>2, BatchTyped
<1>4. PICK new : new = [step |-> "done", scans |-> scans, left |-> {}, wrote |-> wrote]
  OBVIOUS
<1>5. new \in Scanned!BatchRows /\ new.step = "done" /\ new.scans = scans
  BY <1>3, <1>4 DEF Scanned!BatchRows, Lists
<1>6. batch' = [batch EXCEPT ![b] = new]
  <2>1. batch' = [batch EXCEPT ![b].step = "done"] /\ batch \in [Batches -> Scanned!BatchRows]
    BY DEF Scanned!CommitBatch, ScansInv
  <2>2. PICK old : old = [step |-> "updating", scans |-> scans, left |-> {}, wrote |-> wrote]
    OBVIOUS
  <2>3. [old EXCEPT !.step = "done"] = new
    BY <1>4, <2>2
  <2>4. batch' = [batch EXCEPT ![b] = [old EXCEPT !.step = "done"]]
    BY <1>2, <2>1, <2>2
  <2> QED
    BY <2>3, <2>4
<1>7. /\ batch' \in [Batches -> Scanned!BatchRows] /\ batch'[b] = new
      /\ \A c \in Batches \ {b} : batch'[c] = batch[c]
  BY <1>5, <1>6 DEF ScansInv
<1>8. Scanned!Locked(b) = DOMAIN wrote
  BY <1>1, <1>2 DEF Scanned!Locked
<1>9. /\ DOMAIN wrote = {i \in Items : SkuOfItem[i] \in Scanned!SkusOf(scans)}
      /\ \A i \in DOMAIN wrote : wrote[i] = quantity[i] + Scanned!DeltaOf(scans, SkuOfItem[i])
  <2>1. Scanned!Written(b) = Scanned!SkusOf(scans)
    BY <1>1, <1>2 DEF Scanned!Written
  <2> QED
    BY <1>1, <1>2, <2>1 DEF BatchFits, Scanned!NextSku
<1>10. quantity \in [Items -> Int]
  BY DEF ScansInv
<1>11. \A i \in Items : quantity'[i] = IF i \in DOMAIN wrote THEN wrote[i] ELSE quantity[i]
  BY <1>2, <1>8 DEF Scanned!CommitBatch
<1>12. \A i \in Items : /\ quantity'[i] = quantity[i] + Scanned!DeltaOf(scans, SkuOfItem[i])
                        /\ quantity'[i] \in Int
  <2>1. SUFFICES ASSUME NEW i \in Items
                 PROVE  /\ quantity'[i] = quantity[i] + Scanned!DeltaOf(scans, SkuOfItem[i])
                        /\ quantity'[i] \in Int
    OBVIOUS
  <2>2. Scanned!DeltaOf(scans, SkuOfItem[i]) \in Int /\ quantity[i] \in Int
    BY <1>3, <1>10, DeltaTyped
  <2>3. CASE i \in DOMAIN wrote
    BY <1>9, <1>11, <2>2, <2>3
  <2>4. CASE i \notin DOMAIN wrote
    <3>1. Scanned!OfSku(scans, SkuOfItem[i]) = {}
      BY <1>9, <2>4 DEF Scanned!SkusOf, Scanned!OfSku
    <3>2. Scanned!DeltaOf(scans, SkuOfItem[i]) = 0
      BY <1>3, <3>1, DeltaTyped
    <3> QED
      BY <1>11, <2>2, <2>4, <3>2
  <2> QED
    BY <2>3, <2>4
<1>13. quantity' \in [Items -> Int]
  <2>1. quantity' = [i \in Items |-> quantity'[i]]
    BY DEF Scanned!CommitBatch
  <2> QED
    BY <1>12, <2>1
<1> QED
  BY <1>2, <1>3, <1>5, <1>7, <1>8, <1>11, <1>12, <1>13

LEMMA LedgerGrows ==
  ASSUME ScansAssumption, ScansInv, NEW b \in Batches, Scanned!CommitBatch(b)
  PROVE  /\ ledger' \subseteq Batches \X (1..MaxScans)
         /\ \A row \in ledger' : /\ batch'[row[1]].step = "done"
                                 /\ row[2] \in DOMAIN batch'[row[1]].scans
         /\ \A row \in ledger : row[1] # b /\ Scanned!ScanOf(row)' = Scanned!ScanOf(row)
         /\ IsFiniteSet(ledger')
<1> DEFINE scans == batch[b].scans
<1>1. ledger' = ledger \cup {<<b, n>> : n \in DOMAIN scans}
  BY DEF Scanned!CommitBatch
<1>2. scans \in Lists /\ DOMAIN scans \subseteq 1..MaxScans
  BY CommitFacts, ScansListed
<1>3. batch[b].step = "updating"
  BY DEF Scanned!CommitBatch
<1>4. ASSUME NEW row \in ledger
      PROVE  /\ row[1] \in Batches \ {b} /\ batch'[row[1]] = batch[row[1]]
             /\ batch[row[1]].step = "done" /\ row[2] \in DOMAIN batch[row[1]].scans
  <2>1. row[1] \in Batches /\ batch[row[1]].step = "done" /\ row[2] \in DOMAIN batch[row[1]].scans
    BY DEF ScansInv
  <2> QED
    BY <1>3, <2>1, CommitFacts
<1>5. ASSUME NEW row \in {<<b, n>> : n \in DOMAIN scans}
      PROVE  /\ row \in Batches \X (1..MaxScans) /\ batch'[row[1]].step = "done"
             /\ row[2] \in DOMAIN batch'[row[1]].scans
  <2>1. PICK n \in DOMAIN scans : row = <<b, n>>
    OBVIOUS
  <2>2. row[1] = b /\ row[2] = n
    BY <2>1
  <2> QED
    BY <1>2, <2>1, <2>2, CommitFacts
<1>6. ledger \subseteq Batches \X (1..MaxScans)
  BY DEF ScansInv
<1>7. ledger' \subseteq Batches \X (1..MaxScans)
  BY <1>1, <1>5, <1>6
<1>8. IsFiniteSet(ledger')
  <2>1. IsFiniteSet(1..MaxScans) /\ IsFiniteSet(Batches)
    BY ScanFacts, Counting
  <2>2. IsFiniteSet(Batches \X (1..MaxScans))
    BY <2>1, FS_Product
  <2> QED
    BY <1>7, <2>2, FS_Subset
<1>9. \A row \in ledger : Scanned!ScanOf(row)' = Scanned!ScanOf(row)
  BY <1>4 DEF Scanned!ScanOf
<1> QED
  BY <1>1, <1>4, <1>5, <1>7, <1>8, <1>9

LEMMA CommitExplained ==
  ASSUME ScansAssumption, ScansInv, NEW b \in Batches, Scanned!CommitBatch(b)
  PROVE  Scanned!LedgerExplainsStock'
<1> SUFFICES ASSUME NEW i \in Items
             PROVE  (quantity[i] =
                      Scanned!NetTotal([row \in ledger |-> Scanned!ScanOf(row)[2]],
                        Scanned!LedgerOf(SkuOfItem[i])))'
  BY DEF Scanned!LedgerExplainsStock
<1>1. PICK scans : scans = batch[b].scans
  OBVIOUS
<1>2. PICK sku : sku = SkuOfItem[i]
  OBVIOUS
<1>3. PICK L : L = Scanned!LedgerOf(sku)
  OBVIOUS
<1>4. PICK N : N = Scanned!OfSku(scans, sku)
  OBVIOUS
<1>5. PICK f : f = [row \in ledger |-> Scanned!ScanOf(row)[2]]
  OBVIOUS
<1>6. PICK g : g = [row \in ledger |-> Scanned!ScanOf(row)[2]]'
  OBVIOUS
<1>7. PICK d : d = [n \in DOMAIN scans |-> scans[n][2]]
  OBVIOUS
<1>8. PICK h : h = [n \in N |-> <<b, n>>]
  OBVIOUS
<1>9. PICK M : M = {h[n] : n \in N}
  OBVIOUS
<1>10. scans \in Lists /\ batch'[b].scans = scans
  BY <1>1, CommitFacts
<1>11. /\ N \subseteq DOMAIN scans /\ IsFiniteSet(N)
       /\ \A n \in DOMAIN scans : scans[n][1] \in Skus /\ scans[n][2] \in Int
       /\ Scanned!DeltaOf(scans, sku) = Net(d, N)
  BY <1>4, <1>7, <1>10, DeltaTyped, ScansListed DEF Scanned!OfSku
<1>12. ledger' = ledger \cup {<<b, n>> : n \in DOMAIN scans}
  BY <1>1 DEF Scanned!CommitBatch
<1>13. \A n \in DOMAIN scans : Scanned!ScanOf(<<b, n>>)' = scans[n]
  BY <1>10 DEF Scanned!ScanOf
<1>14. Scanned!LedgerOf(sku)' = L \cup M
  <2>1. \A row \in ledger : row \in Scanned!LedgerOf(sku)' <=> row \in L
    BY <1>3, <1>12, LedgerGrows DEF Scanned!LedgerOf
  <2>2. \A n \in DOMAIN scans : <<b, n>> \in Scanned!LedgerOf(sku)' <=> n \in N
    BY <1>4, <1>12, <1>13 DEF Scanned!LedgerOf, Scanned!OfSku
  <2>3. \A n \in N : h[n] = <<b, n>> /\ h[n] \in Scanned!LedgerOf(sku)'
    BY <1>8, <1>11, <2>2
  <2>4. L \subseteq ledger /\ Scanned!LedgerOf(sku)' \subseteq ledger'
    BY <1>3 DEF Scanned!LedgerOf
  <2> QED
    BY <1>9, <1>12, <2>1, <2>2, <2>3, <2>4
<1>15. h \in Bijection(N, M)
  <2>1. h \in [N -> M] /\ \A x \in M : \E n \in N : h[n] = x
    BY <1>8, <1>9
  <2>2. \A n, m \in N : h[n] = h[m] => n = m
    BY <1>8
  <2> QED
    BY <2>1, <2>2, Zenon DEF Bijection, Injection, Surjection, IsInjective
<1>16. \A n \in N : d[n] \in Int /\ g[h[n]] = d[n]
  BY <1>6, <1>7, <1>8, <1>11, <1>12, <1>13
<1>17. Net(g, M) = Net(d, N)
  BY <1>11, <1>15, <1>16, NetRenamed
<1>18. \A row \in L : f[row] = g[row] /\ f[row] \in Int
  <2>1. SUFFICES ASSUME NEW row \in ledger
                 PROVE  f[row] = g[row] /\ f[row] \in Int
    BY <1>3 DEF Scanned!LedgerOf
  <2>2. f[row] = Scanned!ScanOf(row)[2] /\ g[row] = Scanned!ScanOf(row)'[2]
    BY <1>5, <1>6, <1>12
  <2>3. row[1] \in Batches /\ row[2] \in DOMAIN batch[row[1]].scans
    BY DEF ScansInv
  <2>4. batch[row[1]].scans \in Lists
    BY <2>3, BatchTyped
  <2>5. Scanned!ScanOf(row)[2] \in Int
    BY <2>3, <2>4, ScansListed DEF Scanned!ScanOf
  <2> QED
    BY <2>2, <2>5, LedgerGrows
<1>19. Net(f, L) = Net(g, L)
  BY <1>18, NetCongruence
<1>20. L \cap M = {} /\ IsFiniteSet(L) /\ IsFiniteSet(M)
  <2>1. \A x \in M : x[1] = b
    BY <1>8, <1>9
  <2>2. \A x \in L : x[1] # b
    BY <1>3, LedgerGrows DEF Scanned!LedgerOf
  <2>3. L \cup M \subseteq ledger'
    BY <1>14 DEF Scanned!LedgerOf
  <2>4. IsFiniteSet(L \cup M)
    BY <2>3, LedgerGrows, FS_Subset
  <2> QED
    BY <2>1, <2>2, <2>4, FS_Subset
<1>21. \A x \in L \cup M : g[x] \in Int
  BY <1>9, <1>16, <1>18
<1>22. Net(g, L \cup M) = Net(g, L) + Net(g, M)
  BY <1>20, <1>21, NetUnion
<1>23. quantity[i] = Net(f, L)
  <2>1. quantity[i] = Scanned!NetTotal(f, L)
    BY <1>2, <1>3, <1>5 DEF ScansInv, Scanned!LedgerExplainsStock
  <2> QED
    BY <2>1, ScanSums
<1>24. quantity'[i] = quantity[i] + Scanned!DeltaOf(scans, sku)
  BY <1>1, <1>2, CommitFacts
<1>25. quantity'[i] = Net(g, L \cup M)
  BY <1>11, <1>17, <1>19, <1>22, <1>23, <1>24
<1>26. quantity'[i] = Scanned!NetTotal(g, L \cup M)
  BY <1>25, ScanSums
<1> QED
  BY <1>2, <1>6, <1>14, <1>26

LEMMA BatchCommitted ==
  ASSUME ScansAssumption, ScansInv, NEW b \in Batches, Scanned!CommitBatch(b)
  PROVE  ScansInv'
<1>1. Scanned!Locked(b)' = {} /\ \A c \in Batches \ {b} : Scanned!Locked(c)' = Scanned!Locked(c)
  BY CommitFacts DEF Scanned!Locked
<1>2. ASSUME NEW c \in Batches, batch'[c].step = "updating"
      PROVE  BatchFits(c)'
  <2>1. c # b /\ batch'[c] = batch[c]
    BY <1>2, CommitFacts
  <2>2. BatchFits(c)
    BY <1>2, <2>1 DEF ScansInv
  <2>3. DOMAIN batch[c].wrote = Scanned!Locked(c) /\ Scanned!Locked(c) \cap Scanned!Locked(b) = {}
    BY <1>2, <2>1 DEF Scanned!Locked, ScansInv
  <2>4. \A i \in DOMAIN batch[c].wrote : i \in Items \ Scanned!Locked(b)
    BY <2>2, <2>3 DEF BatchFits
  <2>5. \A i \in DOMAIN batch[c].wrote : quantity'[i] = quantity[i]
    BY <2>4, CommitFacts
  <2>6. Scanned!Written(c)' = Scanned!Written(c)
    BY <2>1 DEF Scanned!Written
  <2> QED
    BY <2>1, <2>2, <2>5, <2>6 DEF BatchFits
<1>3. \A c \in Batches, d \in Batches : c # d => Scanned!Locked(c)' \cap Scanned!Locked(d)' = {}
  BY <1>1 DEF ScansInv
<1> QED
  BY <1>2, <1>3, CommitFacts, LedgerGrows, CommitExplained DEF ScansInv

LEMMA ScansInvStep ==
  ASSUME ScansAssumption, ScansInv, [Scanned!ScansNext]_scanVars
  PROVE  ScansInv'
<1>1. CASE UNCHANGED scanVars
  <2>1. quantity' = quantity /\ ledger' = ledger /\ batch' = batch
    BY <1>1 DEF scanVars
  <2>2. Scanned!LedgerExplainsStock'
    BY <2>1, LedgerKept
  <2> QED
    BY <2>1, <2>2
       DEF ScansInv, BatchFits, Scanned!Written, Scanned!Locked
<1>2. CASE Scanned!ScansNext
  <2>1. PICK b \in Batches :
          \/ \E len \in 1..MaxScans : \E scans \in [1..len -> Scanned!Scan] :
             Scanned!StartBatch(b, scans)
          \/ Scanned!UpdateRow(b)
          \/ Scanned!EndUpdate(b)
          \/ Scanned!CommitBatch(b)
          \/ Scanned!RollBack(b)
    BY <1>2 DEF Scanned!ScansNext
  <2> QED
    BY <2>1, BatchStarted, RowUpdated, UpdateEnded, BatchCommitted, BatchRolledBack
<1> QED
  BY <1>1, <1>2

(* A batch whose next sku comes last waits for nobody but one within the same *)
(* sku: what the others have locked comes before all that they have left,    *)
(* but for rows of their next sku.                                          *)
LEMMA NextSkuExists ==
  ASSUME ScansAssumption, ScansInv, NEW b \in Batches, batch[b].left # {}
  PROVE  \E sku \in Nat : Scanned!NextSku(batch[b].left) = {sku}
<1>1. batch[b].left \in SUBSET Nat /\ batch[b].left # {}
  BY BatchTyped, ScanFacts
<1>2. PICK x \in batch[b].left : \A y \in batch[b].left : x <= y
  BY <1>1, LeastNumber
<1>3. \A z \in batch[b].left : z <= x => z = x
  <2>1. \A z \in batch[b].left : z \in Nat /\ x \in Nat /\ x <= z
    BY <1>1, <1>2
  <2> QED
    BY <2>1
<1> QED
  BY <1>1, <1>2, <1>3 DEF Scanned!NextSku

LEMMA LastBatchAdvances ==
  ASSUME ScansAssumption, ScansInv
  PROVE  Scanned!SomeBatchAdvances
<1> DEFINE open == {b \in Batches : batch[b].step = "updating"}
<1>1. SUFFICES ASSUME open # {}, \A b \in open : ~Scanned!GoesOn(b)
               PROVE  \E b \in open : \E c \in open \ {b} : Scanned!ShareSku(b, c)
  BY DEF Scanned!SomeBatchAdvances
<1>0. \A b \in open : batch[b].left # {}
  BY <1>1 DEF Scanned!GoesOn
<1> DEFINE f == [b \in open |-> CHOOSE sku \in Nat : Scanned!NextSku(batch[b].left) = {sku}]
           S == {f[b] : b \in open}
<1>2. \A b \in open : f[b] \in Nat /\ Scanned!NextSku(batch[b].left) = {f[b]}
  BY <1>0, NextSkuExists
<1>3. IsFiniteSet(open)
  BY ScanFacts, FS_Subset
<1>4. \E b \in open : TRUE
  BY <1>1
<1> HIDE DEF f, open
<1>5. PICK M \in Nat : \A b \in open : f[b] \in 0..M
  BY <1>2, <1>3, RowsBounded
<1>6. S \in SUBSET Nat /\ S # {} /\ \A n \in S : n <= M
  BY <1>2, <1>4, <1>5
<1>7. PICK n \in S : \A k \in S : k <= n
  BY <1>5, <1>6, GreatestNumber
<1>8. PICK b \in open : n = f[b]
  BY <1>7
<1>9. ASSUME NEW d \in open, f[d] = n
      PROVE  \E c \in open \ {d} : f[c] = n /\ Scanned!RowsOf(n) \cap Scanned!Locked(c) # {}
  <2>1. n \in Scanned!NextSku(batch[d].left) /\ ~Scanned!GoesOn(d)
    BY <1>1, <1>2, <1>9
  <2>2. PICK i \in Scanned!RowsOf(n) \ Scanned!Locked(d) : ~Scanned!Free(d, i)
    BY <2>1 DEF Scanned!GoesOn
  <2>3. PICK c \in Batches \ {d} : i \in Scanned!Locked(c)
    BY <2>2 DEF Scanned!Free
  <2>4. batch[c].step = "updating" /\ i \in DOMAIN batch[c].wrote /\ c \in open
    BY <2>3 DEF Scanned!Locked, open
  <2>5. BatchFits(c)
    BY <2>4 DEF ScansInv
  <2>6. f[c] \in batch[c].left /\ f[c] <= n /\ f[c] \in Nat /\ n \in Nat
          /\ Scanned!NextSku(batch[c].left) = {f[c]}
    BY <1>2, <1>6, <1>7, <2>4 DEF Scanned!NextSku
  <2>7. n \in Scanned!Written(c) \cup {f[c]}
    BY <2>2, <2>4, <2>5, <2>6 DEF BatchFits, Scanned!RowsOf
  <2>8. n \notin Scanned!Written(c)
    <3>1. n \in Scanned!Written(c) => n < f[c]
      BY <2>5, <2>6 DEF BatchFits
    <3> QED
      BY <2>6, <3>1
  <2> QED
    BY <2>2, <2>3, <2>4, <2>7, <2>8
<1>10. PICK c \in open \ {b} : f[c] = n /\ Scanned!RowsOf(n) \cap Scanned!Locked(c) # {}
  BY <1>8, <1>9
<1>11. PICK d \in open \ {c} : f[d] = n /\ Scanned!RowsOf(n) \cap Scanned!Locked(d) # {}
  BY <1>9, <1>10
<1>12. Scanned!ShareSku(d, c)
  <2>1. n \in Scanned!NextSku(batch[d].left) \cap Scanned!NextSku(batch[c].left)
    BY <1>2, <1>10, <1>11
  <2> QED
    BY <1>10, <1>11, <2>1 DEF Scanned!ShareSku
<1> QED
  BY <1>10, <1>11, <1>12

(* What holds of the files, the drawings and the batches. *)
StoredPart ==
  /\ part = "files" => FilesInv
  /\ part = "drawings" => DrawingsInv
  /\ part = "scans" => ScansInv

LEMMA StoredHolds == CoreSpec => []StoredPart
<1>1. CoreInit => StoredPart
  BY FilesInvInit, DrawingsInvInit, ScansInvInit, FilesAssumption, ScansAssumption
     DEF CoreInit, StoredPart
<1>2. StoredPart /\ [CoreNext]_coreVars => StoredPart'
  <2>1. [CoreNext]_coreVars =>
          /\ part' = part
          /\ part = "files" => [Files!FilesNext]_filesVars
          /\ part = "drawings" => [Drawn!DrawingsNext]_drawingVars
          /\ part = "scans" => [Scanned!ScansNext]_scanVars
    BY DEF CoreNext, coreVars
  <2>2. CASE part = "files"
    BY <2>1, <2>2, FilesInvStep, FilesAssumption DEF StoredPart
  <2>3. CASE part = "drawings"
    BY <2>1, <2>3, DrawingsInvStep, FilesAssumption DEF StoredPart
  <2>4. CASE part = "scans"
    BY <2>1, <2>4, ScansInvStep, ScansAssumption DEF StoredPart
  <2> QED
    BY <2>1, <2>2, <2>3, <2>4 DEF StoredPart
<1> QED
  BY <1>1, <1>2, PTL DEF CoreSpec

(* A row of a generated file that a link is given out for has its file in    *)
(* the store, or on the local disk after a put that failed                   *)
(* (src/apps/core/r2_storage.py and its sweep of old files); a drawing is    *)
(* shown with an order of its own deal only (crm_views.py of src/apps/core);  *)
(* the stock rows show the sum of the scans in the ledger, and among the     *)
(* batches under way one need not wait for the others, unless two are within *)
(* the rows of one sku (src/apps/inventory/views.py).                        *)
THEOREM CoreFilesDrawingsAndScansHold == CoreSpec => []FilesDrawingsAndScansHold
<1>1. StoredPart => FilesDrawingsAndScansHold
  <2>1. ScansInv => Scanned!ScansAddUp
    BY LastBatchAdvances, ScansAssumption DEF Scanned!ScansAddUp, ScansInv
  <2> QED
    BY <2>1 DEF StoredPart, FilesDrawingsAndScansHold, FilesInv, DrawingsInv
<1> QED
  BY <1>1, StoredHolds, PTL

=============================================================================
