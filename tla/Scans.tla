------------------------------- MODULE Scans --------------------------------
(***************************************************************************)
(* The barcode scan ingest (apps/inventory): batches of scans add their     *)
(* quantities to the stock rows of their skus.                              *)
(*                                                                         *)
(* A batch is one transaction: it inserts its ledger rows and then updates  *)
(* the stock rows one sku after the other, in the order of the skus.  Within *)
(* one UPDATE the database locks the rows of the sku one by one, in the      *)
(* order in which it finds them, which is not fixed, and keeps each row      *)
(* locked until the transaction ends.  An update adds to the value found     *)
(* under the lock.  Batches carry no identity: a batch that is sent again    *)
(* is another batch.                                                        *)
(***************************************************************************)
EXTENDS Integers, Sequences, Quantities

CONSTANTS
  Skus,        \* the scanned codes, numbered in their sorting order
  Items,       \* the stock rows
  SkuOf,       \* the sku of each of them; a sku may have several or none
  Batches,     \* the requests
  Deltas,      \* the quantities of one scan
  MaxScans     \* bound on the scans of one batch

VARIABLES
  quantity,    \* qty_on_hand of each stock row, as committed
  ledger,      \* the ledger rows, as committed: the scan of a batch at a place
  batch        \* the requests: scans, step, skus left, rows as they will be

scanVars == <<quantity, ledger, batch>>

Scan == Skus \X Deltas

SkusOf(scans) == {scans[n][1] : n \in DOMAIN scans}

(* The sum of the quantities of the scans S, of which some are negative. *)
NetTotal(f, S) == Total(f, S) - Total([x \in S |-> -f[x]], S)

(* The sum of the quantities of those scans of a batch that are of a sku. *)
OfSku(scans, sku) == {n \in DOMAIN scans : scans[n][1] = sku}
DeltaOf(scans, sku) == NetTotal([n \in DOMAIN scans |-> scans[n][2]], OfSku(scans, sku))

(* The rows a transaction under way has written, and locked with it. *)
Locked(b) == IF batch[b].step = "updating" THEN DOMAIN batch[b].wrote ELSE {}

(* The next sku in the order of the code, and of the transaction. *)
NextSku(left) == {sku \in left : \A other \in left : sku <= other}

RowsOf(sku) == {i \in Items : SkuOf[i] = sku}

Free(b, i) == \A c \in Batches \ {b} : i \notin Locked(c)

ScansInit ==
  /\ quantity = [i \in Items |-> 0]
  /\ ledger = {}
  /\ batch = [b \in Batches |-> [step |-> "new", scans |-> <<>>, left |-> {}, wrote |-> <<>>]]

(* The request arrives and opens its transaction with the ledger rows. *)
StartBatch(b, scans) ==
  /\ batch[b].step = "new"
  /\ batch' = [batch EXCEPT ![b] =
                 [step |-> "updating", scans |-> scans,
                  left |-> SkusOf(scans), wrote |-> <<>>]]
  /\ UNCHANGED <<quantity, ledger>>

(* A row of the UPDATE under way: it waits for the lock of another           *)
(* transaction and adds to the value it finds then.                         *)
UpdateRow(b) ==
  /\ batch[b].step = "updating"
  /\ \E sku \in NextSku(batch[b].left) : \E i \in RowsOf(sku) \ Locked(b) :
       /\ Free(b, i)
       /\ batch' = [batch EXCEPT ![b].wrote = [k \in DOMAIN @ \cup {i} |->
                      IF k = i THEN quantity[i] + DeltaOf(batch[b].scans, sku) ELSE @[k]]]
  /\ UNCHANGED <<quantity, ledger>>

(* The UPDATE has found all rows of its sku. *)
EndUpdate(b) ==
  /\ batch[b].step = "updating"
  /\ \E sku \in NextSku(batch[b].left) :
       /\ RowsOf(sku) \subseteq Locked(b)
       /\ batch' = [batch EXCEPT ![b].left = @ \ {sku}]
  /\ UNCHANGED <<quantity, ledger>>

CommitBatch(b) ==
  /\ batch[b].step = "updating" /\ batch[b].left = {}
  /\ quantity' = [i \in Items |-> IF i \in Locked(b) THEN batch[b].wrote[i] ELSE quantity[i]]
  /\ ledger' = ledger \cup {<<b, n>> : n \in DOMAIN batch[b].scans}
  /\ batch' = [batch EXCEPT ![b].step = "done"]

(* An error, the end of the worker or the database, which ends one of the    *)
(* transactions that wait for each other, rolls the transaction back.       *)
RollBack(b) ==
  /\ batch[b].step = "updating"
  /\ batch' = [batch EXCEPT ![b].step = "failed"]
  /\ UNCHANGED <<quantity, ledger>>

ScansNext ==
  \E b \in Batches :
    \/ \E len \in 1..MaxScans : \E scans \in [1..len -> Scan] : StartBatch(b, scans)
    \/ UpdateRow(b)
    \/ EndUpdate(b)
    \/ CommitBatch(b)
    \/ RollBack(b)

ScansSpec == ScansInit /\ [][ScansNext]_scanVars

(* What every stock row shows is explained by the ledger: the sum of all    *)
(* scans of its sku, those of interrupted batches left out.                 *)
ScanOf(row) == batch[row[1]].scans[row[2]]
LedgerOf(sku) == {row \in ledger : ScanOf(row)[1] = sku}
LedgerExplainsStock ==
  \A i \in Items :
    quantity[i] = NetTotal([row \in ledger |-> ScanOf(row)[2]], LedgerOf(SkuOf[i]))

(* "Sort deltas by SKU deterministically to make PostgreSQL deadlocks        *)
(* impossible" (views.py:46): among the transactions under way there is      *)
(* always one that need not wait for the others, unless two of them are      *)
(* within the UPDATE of one sku and each holds a row of it, which the order  *)
(* of the skus says nothing about.                                          *)
GoesOn(b) ==
  \/ batch[b].left = {}
  \/ \E sku \in NextSku(batch[b].left) :
       RowsOf(sku) \subseteq Locked(b) \/ \E i \in RowsOf(sku) \ Locked(b) : Free(b, i)
ShareSku(b, c) ==
  \E sku \in NextSku(batch[b].left) \cap NextSku(batch[c].left) :
    RowsOf(sku) \cap Locked(b) # {} /\ RowsOf(sku) \cap Locked(c) # {}
SomeBatchAdvances ==
  LET open == {b \in Batches : batch[b].step = "updating"}
  IN  open # {} => (\E b \in open : GoesOn(b)) \/ \E b \in open : \E c \in open \ {b} : ShareSku(b, c)

(* Both: scans do not get lost, and block each other in that way only. *)
ScansAddUp == LedgerExplainsStock /\ SomeBatchAdvances

(* The rows, and what is assumed of the constants.                          *)
ScansConstants ==
  /\ IsFiniteSet(Batches) /\ Skus \subseteq Nat /\ Deltas \subseteq Int /\ MaxScans \in Nat
  /\ SkuOf \in [Items -> Skus]

BatchRows == [step : {"new", "updating", "done", "failed"},
              scans : UNION {[1..len -> Scan] : len \in 0..MaxScans},
              left : SUBSET Skus, wrote : UNION {[its -> Int] : its \in SUBSET Items}]

Written(b) == SkusOf(batch[b].scans) \ batch[b].left

=============================================================================
