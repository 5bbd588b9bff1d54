--------------------------- MODULE BillOfMaterials ---------------------------
(***************************************************************************)
(* The explosion of a bill of materials of the workspace (bom_explode and    *)
(* the bom form of src/apps/reference_erp/engine.py): what an item is made  *)
(* of, down to what has no bill of its own, and what that costs.  Any item  *)
(* can be entered as a component of any other, itself included, so that the *)
(* explosion looks for loops as it goes down.                               *)
(*                                                                         *)
(* The quantity of a component includes its scrap.  Rounding, and the unit  *)
(* cost of a component of less than one, are left out.  The cost that a     *)
(* bill gives its own item is read again only by later bills, as a default: *)
(* the explosion prices an item only when it has no bill, and a bill is     *)
(* never withdrawn.                                                         *)
(*                                                                         *)
(* The definition commented "Mutant:" is a mistake for the property to find. *)
(***************************************************************************)
EXTENDS Quantities

CONSTANTS
  Goods,        \* items
  MaxPer,       \* bound on the quantity of a component
  MaxParts,     \* bound on the quantities of all components of a bill
  Price(_),     \* cost of an item
  Labour(_),    \* cost of the operations on one piece of an item
  None

VARIABLES bills   \* the quantity of each component for one piece, None without

BillsInit == bills = [i \in Goods |-> None]

(* The bom form: the bill of an item is written, or written over. *)
SaveBill(i, parts) ==
  /\ Total(parts, Goods) <= MaxParts
  /\ bills' = [bills EXCEPT ![i] = parts]

BillsNext == \E i \in Goods : \E parts \in [Goods -> 0..MaxPer] : SaveBill(i, parts)

-----------------------------------------------------------------------------
Raw(i) == bills[i] = None

(* Mutant: an item entered as a component of itself is passed over. *)
ComponentsAside(i) == {g \in Goods \ {i} : bills[i][g] > 0}

Components(i) == {g \in Goods : bills[i][g] > 0}
Loop == [loops |-> TRUE, raw |-> [g \in Goods |-> 0], cost |-> 0]

(* Each branch carries the items above it: an item used in two branches is   *)
(* no loop.                                                                 *)
Explode[visited \in SUBSET Goods] == [i \in Goods |-> [n \in Nat |->
  IF i \in visited THEN Loop
  ELSE IF Raw(i)
  THEN [loops |-> FALSE, raw |-> [g \in Goods |-> IF g = i THEN n ELSE 0], cost |-> n * Price(i)]
  ELSE LET parts == [g \in Components(i) |-> Explode[visited \cup {i}][g][n * bills[i][g]]]
       IN  IF \E g \in Components(i) : parts[g].loops THEN Loop
           ELSE [loops |-> FALSE,
                 raw |-> [h \in Goods |->
                            Total([g \in Components(i) |-> parts[g].raw[h]], Components(i))],
                 cost |-> Total([g \in Components(i) |-> parts[g].cost], Components(i))
                            + n * Labour(i)]]]

-----------------------------------------------------------------------------
(* What it should be, from the top down: at each level every piece that has  *)
(* a bill gives way to its components.                                      *)
Made == {g \in Goods : ~Raw(g)}

Level(i, n) ==
  LET need[k \in 0..Cardinality(Goods)] ==
        IF k = 0 THEN [g \in Goods |-> IF g = i THEN n ELSE 0]
        ELSE [h \in Goods |->
               (IF Raw(h) THEN need[k - 1][h] ELSE 0)
                 + Total([g \in Made |-> need[k - 1][g] * bills[g][h]], Made)]
  IN  need

(* An explosion stops at a loop exactly when some item below is made of      *)
(* itself; otherwise its materials are those that are left when every item  *)
(* with a bill has given way to its components, and its cost is theirs and  *)
(* that of the work done on every level.                                    *)
AddsUp(i, n) ==
  LET found == Explode[{}][i][n]
      need == Level(i, n)
      last == Cardinality(Goods)
      settled == \A g \in Goods : need[last][g] > 0 => Raw(g)
      work == [k \in 0..last |-> Total([g \in Made |-> need[k][g] * Labour(g)], Made)]
  IN  /\ found.loops <=> ~settled
      /\ settled =>
           /\ found.raw = need[last]
           /\ found.cost = Total([g \in Goods |-> need[last][g] * Price(g)], Goods)
                             + Total(work, 0..last)

ExplosionAddsUp == \A i \in Goods : \A n \in 1..2 : AddsUp(i, n)

(* What is assumed of the constants.                                        *)
BomConstants ==
  /\ IsFiniteSet(Goods) /\ MaxPer \in Nat /\ None \notin [Goods -> 0..MaxPer]
  /\ \A g \in Goods : Price(g) \in Nat /\ Labour(g) \in Nat

=============================================================================
