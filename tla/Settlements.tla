---------------------------- MODULE Settlements -----------------------------
(***************************************************************************)
(* What a company owes and pays, in the workspace engine: expenses, payroll *)
(* runs, and the payouts that settle them (src/apps/reference_erp/engine.py,*)
(* function apply), with the operating statement that is drawn up from      *)
(* these rows (reporting.py, build_statement; its customer side is left     *)
(* out).  One action is one accepted command; the company lock keeps        *)
(* commands apart (module Commands).                                        *)
(*                                                                         *)
(* Amounts are whole multiples of the smallest unit of money, as the        *)
(* program's two-decimal amounts are.  A creditable GST share moves money   *)
(* from the cost of an expense to the input credit and changes no sum here: *)
(* an expense counts with its gross amount.                                 *)
(*                                                                         *)
(* The definition commented "Mutant:" is a mistake for a property to find.   *)
(***************************************************************************)
EXTENDS Naturals, FiniteSets, Quantities

CONSTANTS
  Expenses, Payouts, Runs, Employees,   \* ids that rows can be given
  Periods,     \* months for which payroll is run
  MaxAmount,   \* the largest amount the input check money lets through
  None

(* "supplier" stands for all kinds that are no cost: supplier,              *)
(* asset_purchase, loan_repayment, transfer, tax and salary_advance.        *)
Kinds == {"salary", "other_expense", "expense", "supplier"}

ASSUME SettlementsAssumption ==
  /\ IsFiniteSet(Expenses) /\ IsFiniteSet(Payouts)
  /\ IsFiniteSet(Runs) /\ IsFiniteSet(Employees)
  /\ None \notin Expenses \cup Runs \cup Periods \cup Kinds
  /\ MaxAmount \in Nat \ {0}

VARIABLES
  expense,   \* amount of each expense, and whether it was paid when recorded
  salary,    \* monthly salary of each active employee
  hired,     \* employees that have been entered
  run,       \* month, amount and status of each payroll run
  payout     \* kind, amount and settled row of each payout

vars == <<expense, salary, hired, run, payout>>

-----------------------------------------------------------------------------
NoExpense == [amount |-> 0, paid |-> FALSE]
NoRun == [period |-> None, amount |-> 0, status |-> "absent"]
NoPayout == [kind |-> None, amount |-> 0, expense |-> None, run |-> None]

ExpenseRows == [amount : 1..MaxAmount, paid : BOOLEAN]
RunRows == [period : Periods, amount : Nat, status : {"Draft", "Finalized"}]
PayoutRows == [kind : Kinds, amount : 1..MaxAmount,
               expense : Expenses \cup {None}, run : Runs \cup {None}]

Init ==
  /\ expense = [e \in Expenses |-> NoExpense]
  /\ salary = [e \in Employees |-> 0]
  /\ hired = {}
  /\ run = [r \in Runs |-> NoRun]
  /\ payout = [p \in Payouts |-> NoPayout]

-----------------------------------------------------------------------------
PayoutAmount == [p \in Payouts |-> payout[p].amount]
ExpenseAmount == [e \in Expenses |-> expense[e].amount]
RunAmount == [r \in Runs |-> run[r].amount]

SettledOfExpense(e) == Total(PayoutAmount, {p \in Payouts : payout[p].expense = e})
SettledOfRun(r) == Total(PayoutAmount, {p \in Payouts : payout[p].run = r})

NewExpense(e, n, paid) ==
  /\ expense[e] = NoExpense
  /\ expense' = [expense EXCEPT ![e] = [amount |-> n, paid |-> paid]]
  /\ UNCHANGED <<salary, hired, run, payout>>

Hire(e, n) ==
  /\ e \notin hired
  /\ hired' = hired \cup {e}
  /\ salary' = [salary EXCEPT ![e] = n]
  /\ UNCHANGED <<expense, run, payout>>

(* payroll: the salaries as they are now are the amount of the month. *)
RunPayroll(r, m) ==
  /\ run[r] = NoRun
  /\ \A s \in Runs : run[s].period # m
  /\ run' = [run EXCEPT ![r] = [period |-> m, amount |-> Total(salary, hired),
                                status |-> "Draft"]]
  /\ UNCHANGED <<expense, salary, hired, payout>>

(* payroll-finalize *)
FinalizeRun(r) ==
  /\ run[r].status = "Draft"
  /\ run' = [run EXCEPT ![r].status = "Finalized"]
  /\ UNCHANGED <<expense, salary, hired, payout>>

(* add(state, 'payouts', ...) *)
AddPayout(p, k, n, e, r) ==
  /\ payout[p] = NoPayout
  /\ payout' = [payout EXCEPT ![p] =
       [kind |-> k, amount |-> n, expense |-> e, run |-> r]]
  /\ UNCHANGED <<expense, salary, hired, run>>

(* Mutant: an expense that was paid when it was recorded is paid again. *)
PayExpenseAgain(p, n, e) ==
  /\ n <= expense[e].amount - SettledOfExpense(e)
  /\ AddPayout(p, "expense", n, e, None)

(* payout of an expense: not beyond what is outstanding on it. *)
PayExpense(p, n, e) ==
  /\ expense[e] # NoExpense /\ ~expense[e].paid
  /\ n <= expense[e].amount - SettledOfExpense(e)
  /\ AddPayout(p, "expense", n, e, None)

(* payout of salary for a finalized run: not beyond what is outstanding. *)
PayRun(p, n, r) ==
  /\ hired # {} /\ run[r].status = "Finalized"
  /\ n <= run[r].amount - SettledOfRun(r)
  /\ AddPayout(p, "salary", n, None, r)

(* payout that settles no row; salary needs an employee to go to. *)
PayOut(p, n, k) ==
  /\ k # "expense"
  /\ k = "salary" => hired # {}
  /\ AddPayout(p, k, n, None, None)

Next ==
  \/ \E e \in Expenses, n \in 1..MaxAmount, paid \in BOOLEAN : NewExpense(e, n, paid)
  \/ \E e \in Employees, n \in 0..MaxAmount : Hire(e, n)
  \/ \E r \in Runs, m \in Periods : RunPayroll(r, m)
  \/ \E r \in Runs : FinalizeRun(r)
  \/ \E p \in Payouts, n \in 1..MaxAmount :
       \/ \E e \in Expenses : PayExpense(p, n, e)
       \/ \E r \in Runs : PayRun(p, n, r)
       \/ \E k \in Kinds : PayOut(p, n, k)

Spec == Init /\ [][Next]_vars

-----------------------------------------------------------------------------
(* build_statement over all dates: which rows count in which total.         *)

LinkedExpenses == {payout[p].expense : p \in Payouts}
DirectlyPaid == {e \in Expenses : expense[e].paid /\ e \notin LinkedExpenses}
Unpaid == {e \in Expenses : ~expense[e].paid}
Finalized == {r \in Runs : run[r].status = "Finalized"}
OfKind(K) == {p \in Payouts : payout[p].kind \in K}

Paid == Total(ExpenseAmount, DirectlyPaid) + Total(PayoutAmount, Payouts)

OperatingExpenses ==
  Total(ExpenseAmount, Expenses) + Total(PayoutAmount, OfKind({"other_expense"}))

SalaryExpense ==
  Total(RunAmount, Finalized)
    + Total(PayoutAmount, {p \in OfKind({"salary"}) : payout[p].run = None})

OtherOutflows == Total(PayoutAmount, OfKind({"supplier"}))

(* expense_payable and payroll_payable: what is billed less what is settled. *)
ExpensesBilled == Total(ExpenseAmount, Unpaid)
ExpensesSettled == Total(PayoutAmount, {p \in Payouts : payout[p].expense \in Unpaid})
PayrollBilled == Total(RunAmount, Finalized)
PayrollSettled == Total(PayoutAmount, {p \in Payouts : payout[p].run \in Finalized})

-----------------------------------------------------------------------------
TypeOK ==
  /\ expense \in [Expenses -> ExpenseRows \cup {NoExpense}]
  /\ salary \in [Employees -> 0..MaxAmount]
  /\ hired \subseteq Employees
  /\ run \in [Runs -> RunRows \cup {NoRun}]
  /\ payout \in [Payouts -> PayoutRows \cup {NoPayout}]

(* No expense and no payroll run is settled beyond its amount, however its  *)
(* payouts are split; what was paid when recorded is not paid again, and    *)
(* only a finalized run is paid.                                            *)
NothingSettledTwice ==
  /\ \A e \in Expenses :
       /\ SettledOfExpense(e) <= expense[e].amount
       /\ expense[e].paid => SettledOfExpense(e) = 0
  /\ \A r \in Runs :
       /\ SettledOfRun(r) <= run[r].amount
       /\ SettledOfRun(r) > 0 => run[r].status = "Finalized"

(* Profit and cash are reported from the same rows by different rules; they *)
(* agree: the money that left is the costs and other outflows less what is  *)
(* still payable.                                                           *)
StatementReconciles ==
  Paid + ExpensesBilled + PayrollBilled
  = OperatingExpenses + SalaryExpense + OtherOutflows + ExpensesSettled + PayrollSettled

=============================================================================
