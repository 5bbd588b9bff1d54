----------------------------- MODULE Quantities -----------------------------
(***************************************************************************)
(* Totals over the rows of a collection.  The program adds quantities and  *)
(* amounts with Python's sum over the rows of a list; here a total counts   *)
(* the units the rows stand for: row x contributes the units <<x, 1>> to    *)
(* <<x, f[x]>>.  Counting units instead of folding over the rows gives the  *)
(* same number and lets the facts about finite sets prove what is needed    *)
(* about totals (module QuantityTheorems).                                  *)
(***************************************************************************)
EXTENDS Naturals, FiniteSets

(* The units of the rows S, whose quantities are given by f. *)
Units(f, S) == UNION {{x} \X (1..f[x]) : x \in S}

(* sum(f[x] for x in S). *)
Total(f, S) == Cardinality(Units(f, S))

=============================================================================
