---------------------------- MODULE MCWorkspace -----------------------------
(***************************************************************************)
(* Instances of Workspace for the model checker.                            *)
(***************************************************************************)
EXTENDS Workspace, TLC

MCAmount == [x \in Orders \cup (Invoices \cap Imported) |-> MaxAmount]
MCProgress == {0, 50, 100}
MCEnds == {0, 100}

(* Ids of one collection are interchangeable, the ids of imported rows      *)
(* aside: the model compares them only.                                     *)
RowSymmetry == UNION {Permutations(Orders \ Imported), Permutations(Jobs),
                      Permutations(Invoices \ Imported)}

=============================================================================
