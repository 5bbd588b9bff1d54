-------------------------- MODULE MCWorkspaceStock --------------------------
(***************************************************************************)
(* Instances of WorkspaceStock: one product and one material, with a recipe *)
(* of one and a half units of material per piece.                           *)
(***************************************************************************)
EXTENDS WorkspaceStock, TLC

MCAmount == [x \in Orders \cup (Invoices \cap Imported) |-> 1]
MCProgress == {0, 100}
MCItems == {"product", "material"}
MCItemOf == [o \in Orders |-> "product"]
MCOpening == [i \in MCItems |-> IF i = "material" THEN 2 ELSE 0]
MCRecipes == {[i \in MCItems |-> IF i = "material" THEN 3 ELSE 0]}
MCBoth == BOOLEAN
MCAlways == {TRUE}
MCLosses == {0 - 1}
MCNoAdjustments == {}

JobSymmetry == Permutations(Jobs)

=============================================================================
