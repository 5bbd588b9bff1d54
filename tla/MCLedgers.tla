------------------------------ MODULE MCLedgers ------------------------------
(***************************************************************************)
(* Instances of Settlements, StockLedger, PaidSignup and BillOfMaterials:    *)
(* the money ledger of the workspace, the stock ledger of the ERP, the       *)
(* orders of companies that pay to sign up, and what a product costs.  They *)
(* share no row: the run checks them side by side, one of them in each      *)
(* behaviour, which part says.                                              *)
(***************************************************************************)
EXTENDS Settlements, TLC

CONSTANTS Balances, Bins, Default, Orders, Reservations, Counts,
          Opening, MaxHand, MaxMoves,
          OrderIds, Proofs, MaxOthers, First, Second, Third, Home, Office,
          Goods, MaxPer, MaxParts, Dear, Price(_), Labour(_)

VARIABLES
  part,
  hand, reserved, positions, moves, reservation, count,  \* of StockLedger
  offers, accounts, proofs, companies, welcomed, lost, refused,
  raced,                                                 \* of PaidSignup
  bills                                                  \* of BillOfMaterials

ledgerVars == <<hand, reserved, positions, moves, reservation, count>>
signupVars == <<offers, accounts, proofs, companies, welcomed, lost, refused, raced>>
allVars == <<part, vars, ledgerVars, signupVars, bills>>

(* Three buyers: two share a full name, two a phone. *)
MCForms == {[email |-> First, phone |-> Home, name |-> 1],
            [email |-> Second, phone |-> Office, name |-> 2],
            [email |-> Third, phone |-> Office, name |-> 1]}

Stock == INSTANCE StockLedger
Signup == INSTANCE PaidSignup WITH Forms <- MCForms

Bom == INSTANCE BillOfMaterials

(* What a piece of each item costs, and the work on it: Price and Labour of  *)
(* the run.                                                                 *)
MCPrice(g) == IF g = Dear THEN 5 ELSE 1
MCLabour(g) == IF g = Dear THEN 2 ELSE 3

(* The variables of the part that a behaviour does not run. *)
Unused(x) == x = None
NoSignup == /\ Unused(offers) /\ Unused(accounts) /\ Unused(proofs) /\ Unused(companies)
            /\ Unused(welcomed) /\ Unused(lost) /\ Unused(refused) /\ Unused(raced)

LedgersInit ==
  /\ part \in {"money", "stock", "signup", "bom"}
  /\ Init /\ Stock!LedgerInit
  /\ IF part = "signup" THEN Signup!SignupInit ELSE NoSignup
  /\ IF part = "bom" THEN Bom!BillsInit ELSE Unused(bills)

LedgersNext ==
  /\ UNCHANGED part
  /\ \/ part = "money" /\ Next /\ UNCHANGED <<ledgerVars, signupVars, bills>>
     \/ part = "stock" /\ Stock!LedgerNext /\ UNCHANGED <<vars, signupVars, bills>>
     \/ part = "signup" /\ Signup!SignupNext /\ UNCHANGED <<vars, ledgerVars, bills>>
     \/ part = "bom" /\ Bom!BillsNext /\ UNCHANGED <<vars, ledgerVars, signupVars>>

ASSUME StockAssumption == Stock!StockConstants
ASSUME SignupAssumption == Signup!SignupConstants
ASSUME BomAssumption == Bom!BomConstants

LedgersSpec == LedgersInit /\ [][LedgersNext]_allVars

(* Rows of one collection are interchangeable.  Expenses and Balances are    *)
(* given the same values, so that one permutation serves both.              *)
Symmetry == Permutations(Expenses) \cup Permutations(Payouts) \cup Permutations(Runs)

(* The properties of the parts, for the run to name. *)
BooksAgree ==
  /\ part = "money" => NothingSettledTwice
  /\ part = "stock" => Stock!StockBooksAgree
  /\ part = "signup" => Signup!PaidSignupHolds
ExplosionAddsUp == part = "bom" => Bom!ExplosionAddsUp
CountsSetStock == [][Stock!CountSetsStock]_ledgerVars

=============================================================================
