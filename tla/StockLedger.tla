----------------------------- MODULE StockLedger ----------------------------
(***************************************************************************)
(* The stock of the ERP (src/apps/erp/inventory.py, move_stock of           *)
(* src/apps/erp/services.py and the stock views of src/apps/erp/views.py):  *)
(* balances of one item in several warehouses, the movements that explain   *)
(* them, the bins they lie in, reservations for orders and stock counts.    *)
(* Every command runs under the lock of the company's row: one action.      *)
(*                                                                         *)
(* A balance's version only says whether it was written since a count of    *)
(* its warehouse was opened: the count keeps that it was not.  Which bins   *)
(* an outward movement empties is left open; the code goes by pick order.   *)
(* Values, periods and archived items are left out; the balances are those  *)
(* of the bucket that is dispatched.                                        *)
(*                                                                         *)
(* Definitions commented "Mutant:" are mistakes for the properties to find. *)
(***************************************************************************)
EXTENDS Naturals, Sequences, Quantities

CONSTANTS
  Balances,     \* the item's balances, one for each warehouse
  Bins, Default,  \* the bins of a warehouse; receipts go to the bin Default
  Orders,
  Reservations, Counts,
  Opening,      \* stock of each balance from before movements were recorded
  MaxHand,      \* bound on the quantity of a balance
  MaxMoves,     \* bound on the movements
  None

VARIABLES
  hand,         \* StockBalance.on_hand
  reserved,     \* StockBalance.reserved
  positions,    \* quantities in the bins, None before the first movement
  moves,        \* the movements in order
  reservation,
  count         \* each count's status and its line

ledgerVars == <<hand, reserved, positions, moves, reservation, count>>

Movements == [balance : Balances, in : 0..MaxHand, out : 0..MaxHand,
              source : {"plain", "line", "transfer", "count"}, reverses : 0..MaxMoves]
ReservationRows == [balance : Balances, order : Orders, quantity : 1..MaxHand,
                    consumed : 0..MaxHand, status : {"active", "released", "consumed"}]
CountRows == [status : {"draft", "posted"}, balance : Balances, expected : 0..MaxHand,
              counted : 0..MaxHand \cup {None}, unchanged : BOOLEAN]

Free(b) == hand[b] - reserved[b]
Left(r) == reservation[r].quantity - reservation[r].consumed
Open(b) == {r \in Reservations : /\ reservation[r] # None
                                 /\ reservation[r].balance = b
                                 /\ reservation[r].status = "active"}

(* svc.touch of the balances B: their versions leave what counts have noted. *)
Touched(B) == [c \in Counts |->
  IF count[c] # None /\ count[c].balance \in B
  THEN [count[c] EXCEPT !.unchanged = FALSE] ELSE count[c]]

LedgerInit ==
  /\ hand = [b \in Balances |-> Opening]
  /\ reserved = [b \in Balances |-> 0]
  /\ positions = [b \in Balances |-> None]
  /\ moves = <<>>
  /\ reservation = [r \in Reservations |-> None]
  /\ count = [c \in Counts |-> None]

-----------------------------------------------------------------------------
(* The bins of b; a balance that never moved has all its stock in Default.  *)
InBins(b) == IF positions[b] # None THEN positions[b]
             ELSE [n \in Bins |-> IF n = Default THEN hand[b] ELSE 0]

(* apply_position_change for the movement m.  It ends by comparing the bins *)
(* with the balance: that is no guard here but the property BinsAddUp.      *)
BinsAfter(m) ==
  LET p == InBins(m.balance) IN
  IF m.in > 0 THEN {[p EXCEPT ![Default] = @ + m.in]}
  ELSE {q \in [Bins -> 0..MaxHand] :
          (\A n \in Bins : q[n] <= p[n]) /\ Total(q, Bins) + m.out = Total(p, Bins)}

Moving(ms) == {ms[k].balance : k \in DOMAIN ms}

(* move_stock for the movements ms of different balances, while held is     *)
(* reserved.                                                                *)
Move(ms, held) ==
  LET moving == Moving(ms)
      at(b)  == ms[CHOOSE k \in DOMAIN ms : ms[k].balance = b]
  IN  /\ Len(moves) + Len(ms) <= MaxMoves
      /\ \A b \in moving : /\ hand[b] - held[b] >= at(b).out
                           /\ hand[b] + at(b).in <= MaxHand
      /\ hand' = [b \in Balances |->
                    IF b \in moving THEN hand[b] + at(b).in - at(b).out ELSE hand[b]]
      /\ \E bins \in [moving -> [Bins -> 0..MaxHand]] :
           /\ \A b \in moving : bins[b] \in BinsAfter(at(b))
           /\ positions' = [b \in Balances |-> IF b \in moving THEN bins[b] ELSE positions[b]]
      /\ moves' = moves \o ms

In(b, q, source) == [balance |-> b, in |-> q, out |-> 0, source |-> source, reverses |-> 0]
Out(b, q, source) == [balance |-> b, in |-> 0, out |-> q, source |-> source, reverses |-> 0]

(* StockViewSet.movement: inward, issue or adjustment; and the receipts and *)
(* returns that post_document makes for the lines of a document.            *)
PlainMove(b, q, source) ==
  /\ \/ Move(<<In(b, q, source)>>, reserved)
     \/ Move(<<Out(b, q, source)>>, reserved)
  /\ count' = Touched({b})
  /\ UNCHANGED <<reserved, reservation>>

(* StockViewSet.transfer, in one transaction. *)
Transfer(b1, b2, q) ==
  /\ b1 # b2
  /\ Move(<<Out(b1, q, "transfer"), In(b2, q, "transfer")>>, reserved)
  /\ count' = Touched({b1, b2})
  /\ UNCHANGED <<reserved, reservation>>

(* reverse_movement. *)
Reverse(k) ==
  /\ k \in DOMAIN moves
  /\ moves[k].source \notin {"line", "transfer"}
  /\ ~\E j \in DOMAIN moves : moves[j].reverses = k
  /\ Move(<<[moves[k] EXCEPT !.in = moves[k].out, !.out = moves[k].in, !.reverses = k]>>, reserved)
  /\ count' = Touched({moves[k].balance})
  /\ UNCHANGED <<reserved, reservation>>

-----------------------------------------------------------------------------
(* StockViewSet.reserve. *)
Reserve(r, b, o, q) ==
  /\ reservation[r] = None
  /\ Free(b) >= q
  /\ reservation' = [reservation EXCEPT ![r] =
       [balance |-> b, order |-> o, quantity |-> q, consumed |-> 0, status |-> "active"]]
  /\ reserved' = [reserved EXCEPT ![b] = @ + q]
  /\ count' = Touched({b})
  /\ UNCHANGED <<hand, positions, moves>>

(* Mutant: the whole reservation is given back, whatever was dispatched. *)
ReleaseWhole(r) ==
  /\ reservation[r] # None /\ reservation[r].status = "active"
  /\ LET b == reservation[r].balance IN
       /\ reserved' = [reserved EXCEPT ![b] = @ - reservation[r].quantity]
       /\ count' = Touched({b})
  /\ reservation' = [reservation EXCEPT ![r].status = "released"]
  /\ UNCHANGED <<hand, positions, moves>>

(* release_reservation. *)
Release(r) ==
  /\ reservation[r] # None /\ reservation[r].status = "active"
  /\ LET b == reservation[r].balance IN
       /\ reserved' = [reserved EXCEPT ![b] = @ - Left(r)]
       /\ count' = Touched({b})
  /\ reservation' = [reservation EXCEPT ![r].status = "released"]
  /\ UNCHANGED <<hand, positions, moves>>

(* consume_order_reservations: take is what each open reservation of the    *)
(* order gives, the oldest first; which is older is left open, so that the  *)
(* order only says that one is used up before another is touched.           *)
Consumption(b, o, q) ==
  LET mine == {r \in Open(b) : reservation[r].order = o}
      left == [r \in mine |-> Left(r)]
      used == IF Total(left, mine) < q THEN Total(left, mine) ELSE q
  IN  {take \in [mine -> 0..MaxHand] :
         /\ \A r \in mine : take[r] <= left[r]
         /\ Total(take, mine) = used
         /\ \A r, s \in mine : take[r] > 0 /\ take[r] < left[r] /\ s # r =>
                                 take[s] \in {0, left[s]}}

(* post_document for a line of a dispatch: the reservations of its order    *)
(* are consumed, and what leaves must be free then.                         *)
Dispatch(b, o, q) ==
  \E take \in Consumption(b, o, q) :
    LET held == [reserved EXCEPT ![b] = @ - Total(take, DOMAIN take)] IN
    /\ Move(<<Out(b, q, "line")>>, held)
    /\ reserved' = held
    /\ count' = Touched({b})
    /\ reservation' = [r \in Reservations |->
         IF r \notin DOMAIN take \/ (r \in DOMAIN take /\ take[r] = 0) THEN reservation[r]
         ELSE [reservation[r] EXCEPT
                 !.consumed = @ + take[r],
                 !.status = IF take[r] = Left(r) THEN "consumed" ELSE @]]

-----------------------------------------------------------------------------
(* PositionViewSet.relocate; the balance is not written. *)
Relocate(b, n1, n2, q) ==
  /\ positions[b] # None
  /\ n1 # n2 /\ q <= positions[b][n1]
  /\ positions' = [positions EXCEPT ![b][n1] = @ - q, ![b][n2] = @ + q]
  /\ UNCHANGED <<hand, reserved, moves, reservation, count>>

-----------------------------------------------------------------------------
(* StockCountViewSet.perform_create and open_count. *)
OpenCount(c, b) ==
  /\ count[c] = None
  /\ count' = [count EXCEPT ![c] = [status |-> "draft", balance |-> b, expected |-> hand[b],
                                    counted |-> None, unchanged |-> TRUE]]
  /\ UNCHANGED <<hand, reserved, positions, moves, reservation>>

(* StockCountViewSet.quantities. *)
EnterCount(c, n) ==
  /\ count[c] # None /\ count[c].status = "draft"
  /\ count' = [count EXCEPT ![c].counted = n]
  /\ UNCHANGED <<hand, reserved, positions, moves, reservation>>

(* The movement that a count makes, if it differs. *)
Difference(c) ==
  LET b == count[c].balance
      e == count[c].expected
      n == count[c].counted
  IN  IF n > e THEN <<In(b, n - e, "count")>>
      ELSE IF n < e THEN <<Out(b, e - n, "count")>> ELSE <<>>

(* Mutant: stock that moved since the count was opened is counted all the   *)
(* same.                                                                    *)
PostCountAnyway(c) ==
  /\ count[c] # None /\ count[c].status = "draft" /\ count[c].counted # None
  /\ Move(Difference(c), reserved)
  /\ count' = [Touched(Moving(Difference(c))) EXCEPT ![c].status = "posted"]
  /\ UNCHANGED <<reserved, reservation>>

(* post_count. *)
PostCount(c) ==
  /\ count[c] # None /\ count[c].status = "draft" /\ count[c].counted # None
  /\ count[c].unchanged
  /\ Move(Difference(c), reserved)
  /\ count' = [Touched(Moving(Difference(c))) EXCEPT ![c].status = "posted"]
  /\ UNCHANGED <<reserved, reservation>>

LedgerNext ==
  \/ \E b \in Balances, q \in 1..MaxHand, source \in {"plain", "line"} : PlainMove(b, q, source)
  \/ \E b1, b2 \in Balances, q \in 1..MaxHand : Transfer(b1, b2, q)
  \/ \E k \in 1..MaxMoves : Reverse(k)
  \/ \E r \in Reservations : \/ Release(r)
                             \/ \E b \in Balances, o \in Orders, q \in 1..MaxHand :
                                  Reserve(r, b, o, q)
  \/ \E b \in Balances, q \in 1..MaxHand :
       \/ \E o \in Orders : Dispatch(b, o, q)
       \/ \E n1, n2 \in Bins : Relocate(b, n1, n2, q)
  \/ \E c \in Counts : \/ PostCount(c)
                       \/ \E n \in 0..MaxHand : EnterCount(c, n)
                       \/ \E b \in Balances : OpenCount(c, b)

LedgerSpec == LedgerInit /\ [][LedgerNext]_ledgerVars

-----------------------------------------------------------------------------
LedgerTypeOK ==
  /\ hand \in [Balances -> 0..MaxHand]
  /\ reserved \in [Balances -> 0..MaxHand]
  /\ positions \in [Balances -> {None} \cup [Bins -> 0..MaxHand]]
  /\ moves \in Seq(Movements)
  /\ reservation \in [Reservations -> {None} \cup ReservationRows]
  /\ count \in [Counts -> {None} \cup CountRows]

(* What is reserved in a warehouse is what its open reservations still       *)
(* hold, and it is there: through partial dispatches, releases, transfers,  *)
(* reversals and counts, no order loses stock that was reserved for it.     *)
ReservedStockIsThere ==
  \A b \in Balances :
    /\ reserved[b] = Total([r \in Open(b) |-> Left(r)], Open(b))
    /\ reserved[b] <= hand[b]

(* The bins of a warehouse hold together what its balance says, so that the *)
(* comparison after every movement never refuses one.                       *)
BinsAddUp ==
  \A b \in Balances : positions[b] # None => Total(positions[b], Bins) = hand[b]

(* A movement stands unless a reversal of it stands: reversals can be       *)
(* reversed.                                                                *)
Stands[k \in 1..Len(moves)] ==
  ~\E j \in (k + 1)..Len(moves) : moves[j].reverses = k /\ Stands[j]
Standing == {k \in DOMAIN moves : Stands[k]}

(* The stock of a warehouse is what the movements made that still stand:    *)
(* whatever was undone and done again, nothing is undone twice.             *)
ReversalsUndo ==
  \A b \in Balances :
    LET mine == {k \in Standing : moves[k].balance = b /\ moves[k].reverses = 0}
    IN  Opening + Total([k \in mine |-> moves[k].in], mine)
          = hand[b] + Total([k \in mine |-> moves[k].out], mine)

(* The four together: the books that are kept of one stock agree with each  *)
(* other.                                                                   *)
StockBooksAgree == LedgerTypeOK /\ ReservedStockIsThere /\ BinsAddUp /\ ReversalsUndo

(* A posted count leaves exactly the stock that was counted, and not the    *)
(* difference on top of what moved since.                                   *)
CountSetsStock ==
  \A c \in Counts :
    count[c] # None /\ count[c].status = "draft" /\ count'[c].status = "posted" =>
      hand'[count[c].balance] = count[c].counted

CountsSetStock == [][CountSetsStock]_ledgerVars

-----------------------------------------------------------------------------
(* The rows, and what is assumed of the constants.                          *)
StockConstants ==
  /\ IsFiniteSet(Bins) /\ Default \in Bins /\ IsFiniteSet(Reservations)
  /\ MaxHand \in Nat /\ MaxMoves \in Nat /\ Opening \in 0..MaxHand
  /\ None \notin [Bins -> 0..MaxHand] /\ None \notin 0..MaxHand
  /\ None \notin ReservationRows /\ None \notin CountRows

=============================================================================
