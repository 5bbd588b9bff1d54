------------------------- MODULE LedgersProofs ------------------------------
(***************************************************************************)
(* Proofs about the three ledgers of MCLedgers and its bills of materials,   *)
(* for any number of rows.                                                  *)
(*                                                                         *)
(* Settlements: nothing is settled beyond its amount, and the operating     *)
(* statement reconciles.  The statement's identity needs no induction over  *)
(* sums: it follows, by splitting the payouts into kinds, from              *)
(* PayoutsMatch, which says that every payout names a row of the sort that  *)
(* its kind is for.  That is the inductive part.                            *)
(*                                                                         *)
(* PaidSignup: a paid order founds one company, and who is told so has it.  *)
(* The inductive part is SignupInv: a request that has its subscription     *)
(* has the order to itself, and knows which names were free.                *)
(*                                                                         *)
(* StockLedger: the books of one stock agree and a count sets it.  That the *)
(* standing movements explain the stock needs no induction over chains of   *)
(* reversals: all the movements together explain it (MovesExplain), and     *)
(* each that does not stand pairs off with the standing one that undid it.  *)
(*                                                                         *)
(* BillOfMaterials: the explosion agrees with the levels, by induction on    *)
(* the items that are not yet above it; and it finds no loop where the      *)
(* levels settle, by induction on the level at which they do.                *)
(***************************************************************************)
EXTENDS MCLedgers, Sequences, QuantityTheorems

(* A payout that settles an expense or a run names one that can be settled, *)
(* and one of any other kind names none.                                    *)
Match(p) ==
  \/ payout[p] = NoPayout
  \/ /\ payout[p].kind = "expense" /\ payout[p].run = None
     /\ payout[p].expense \in Expenses
     /\ expense[payout[p].expense] # NoExpense /\ ~expense[payout[p].expense].paid
  \/ /\ payout[p].kind = "salary" /\ payout[p].expense = None
     /\ payout[p].run \in Finalized \cup {None}
  \/ /\ payout[p].kind \in {"other_expense", "supplier"}
     /\ payout[p].expense = None /\ payout[p].run = None
PayoutsMatch == \A p \in Payouts : Match(p)

(* Salaries are bounded, and so is what a payroll run adds up to. *)
RunBound == Cardinality(Employees \X (1..MaxAmount))
RunsBounded == \A r \in Runs : run[r].amount \in 0..RunBound

SettlementsInv ==
  /\ TypeOK
  /\ RunsBounded
  /\ PayoutsMatch
  /\ NothingSettledTwice

-----------------------------------------------------------------------------
(* Types.                                                                   *)

LEMMA BoundTypes == MaxAmount \in Nat /\ RunBound \in Nat
<1>1. MaxAmount \in Nat
  BY SettlementsAssumption
<1>2. IsFiniteSet(1..MaxAmount)
  BY <1>1, FS_Interval
<1>3. IsFiniteSet(Employees \X (1..MaxAmount))
  BY <1>2, SettlementsAssumption, FS_Product
<1>4. QED
  BY <1>1, <1>3, FS_CardinalityType DEF RunBound

LEMMA AmountTypes ==
  ASSUME TypeOK, RunsBounded
  PROVE  /\ \A p \in Payouts : PayoutAmount[p] \in 0..MaxAmount
         /\ \A e \in Expenses : ExpenseAmount[e] \in 0..MaxAmount
         /\ \A r \in Runs : RunAmount[r] \in 0..RunBound
<1>1. \A p \in Payouts : PayoutAmount[p] \in 0..MaxAmount
  BY BoundTypes DEF TypeOK, PayoutRows, NoPayout, PayoutAmount
<1>2. \A e \in Expenses : ExpenseAmount[e] \in 0..MaxAmount
  BY BoundTypes DEF TypeOK, ExpenseRows, NoExpense, ExpenseAmount
<1>3. \A r \in Runs : RunAmount[r] \in 0..RunBound
  BY DEF RunsBounded, RunAmount
<1>4. QED
  BY <1>1, <1>2, <1>3

LEMMA TypedInit == Init => TypeOK /\ RunsBounded
BY BoundTypes, SettlementsAssumption DEF Init, TypeOK, RunsBounded, NoRun

(* The amount of a payroll run. *)
LEMMA PayrollAmount ==
  ASSUME TypeOK
  PROVE  Total(salary, hired) \in 0..RunBound
<1>1. hired \in SUBSET Employees /\ \A e \in hired : salary[e] \in 0..MaxAmount
  BY DEF TypeOK
<1>2. QED
  BY <1>1, BoundTypes, SettlementsAssumption, TotalWithin DEF RunBound

(* One row of the payouts is filled in. *)
LEMMA PayoutTyped ==
  ASSUME TypeOK, NEW p \in Payouts, NEW k \in Kinds, NEW n \in 1..MaxAmount,
         NEW e \in Expenses \cup {None}, NEW r \in Runs \cup {None},
         AddPayout(p, k, n, e, r)
  PROVE  TypeOK'
<1>1. [kind |-> k, amount |-> n, expense |-> e, run |-> r] \in PayoutRows
  BY DEF PayoutRows
<1>2. QED
  BY <1>1 DEF AddPayout, TypeOK

(* The step is a payout, or it leaves the payouts alone. *)
LEMMA Steps ==
  ASSUME [Next]_vars
  PROVE  \/ UNCHANGED vars
         \/ \E e \in Expenses, n \in 1..MaxAmount, paid \in BOOLEAN : NewExpense(e, n, paid)
         \/ \E e \in Employees, n \in 0..MaxAmount : Hire(e, n)
         \/ \E r \in Runs, m \in Periods : RunPayroll(r, m)
         \/ \E r \in Runs : FinalizeRun(r)
         \/ \E p \in Payouts, n \in 1..MaxAmount, e \in Expenses : PayExpense(p, n, e)
         \/ \E p \in Payouts, n \in 1..MaxAmount, r \in Runs : PayRun(p, n, r)
         \/ \E p \in Payouts, n \in 1..MaxAmount, k \in Kinds : PayOut(p, n, k)
BY DEF Next

LEMMA TypedStep == TypeOK /\ RunsBounded /\ [Next]_vars => (TypeOK /\ RunsBounded)'
<1> SUFFICES ASSUME TypeOK, RunsBounded, [Next]_vars
             PROVE  TypeOK' /\ RunsBounded'
  OBVIOUS
<1>1. CASE UNCHANGED vars
  BY <1>1 DEF vars, TypeOK, RunsBounded
<1>2. ASSUME NEW e \in Expenses, NEW n \in 1..MaxAmount, NEW paid \in BOOLEAN,
             NewExpense(e, n, paid)
      PROVE  TypeOK' /\ RunsBounded'
  BY <1>2 DEF NewExpense, TypeOK, RunsBounded, ExpenseRows
<1>3. ASSUME NEW e \in Employees, NEW n \in 0..MaxAmount, Hire(e, n)
      PROVE  TypeOK' /\ RunsBounded'
  BY <1>3 DEF Hire, TypeOK, RunsBounded
<1>4. ASSUME NEW r \in Runs, NEW m \in Periods, RunPayroll(r, m)
      PROVE  TypeOK' /\ RunsBounded'
  <2>1. Total(salary, hired) \in 0..RunBound
    BY PayrollAmount
  <2>2. [period |-> m, amount |-> Total(salary, hired), status |-> "Draft"] \in RunRows
    BY <2>1, BoundTypes DEF RunRows
  <2>3. QED
    BY <1>4, <2>1, <2>2 DEF RunPayroll, TypeOK, RunsBounded
<1>5. ASSUME NEW r \in Runs, FinalizeRun(r) PROVE TypeOK' /\ RunsBounded'
  <2>1. [run[r] EXCEPT !.status = "Finalized"] \in RunRows
    BY <1>5 DEF FinalizeRun, TypeOK, RunRows, NoRun
  <2>2. [run[r] EXCEPT !.status = "Finalized"].amount = run[r].amount
    BY <1>5 DEF FinalizeRun, TypeOK, RunRows, NoRun
  <2>3. QED
    BY <1>5, <2>1, <2>2 DEF FinalizeRun, TypeOK, RunsBounded
<1>6. ASSUME NEW p \in Payouts, NEW n \in 1..MaxAmount, NEW e \in Expenses, PayExpense(p, n, e)
      PROVE  TypeOK' /\ RunsBounded'
  <2>1. AddPayout(p, "expense", n, e, None) /\ "expense" \in Kinds
    BY <1>6 DEF PayExpense, Kinds
  <2>2. QED
    BY <2>1, PayoutTyped DEF AddPayout, RunsBounded
<1>7. ASSUME NEW p \in Payouts, NEW n \in 1..MaxAmount, NEW r \in Runs, PayRun(p, n, r)
      PROVE  TypeOK' /\ RunsBounded'
  <2>1. AddPayout(p, "salary", n, None, r) /\ "salary" \in Kinds
    BY <1>7 DEF PayRun, Kinds
  <2>2. QED
    BY <2>1, PayoutTyped DEF AddPayout, RunsBounded
<1>8. ASSUME NEW p \in Payouts, NEW n \in 1..MaxAmount, NEW k \in Kinds, PayOut(p, n, k)
      PROVE  TypeOK' /\ RunsBounded'
  <2>1. AddPayout(p, k, n, None, None)
    BY <1>8 DEF PayOut
  <2>2. QED
    BY <2>1, PayoutTyped DEF AddPayout, RunsBounded
<1>9. QED
  BY <1>1, <1>2, <1>3, <1>4, <1>5, <1>6, <1>7, <1>8, Steps

-----------------------------------------------------------------------------
(* Payouts name rows of the right sort.                                     *)

LEMMA MatchInit == Init => PayoutsMatch
BY DEF Init, PayoutsMatch, Match

(* What was matched stays so: an expense row is never changed once it is    *)
(* there, and a finalized run stays final.                                  *)
LEMMA MatchKept ==
  ASSUME TypeOK, [Next]_vars, NEW p \in Payouts, Match(p), payout'[p] = payout[p]
  PROVE  Match(p)'
<1>1. \A e \in Expenses : expense[e] # NoExpense => expense'[e] = expense[e]
  BY Steps DEF vars, NewExpense, Hire, RunPayroll, FinalizeRun, PayExpense, PayRun, PayOut,
               AddPayout, TypeOK
<1>2. Finalized \subseteq Finalized'
  <2>1. \A r \in Runs : run[r].status = "Finalized" => run'[r].status = "Finalized"
    BY Steps DEF vars, NewExpense, Hire, RunPayroll, FinalizeRun, PayExpense, PayRun,
                 PayOut, AddPayout, TypeOK, NoRun, RunRows
  <2>2. QED
    BY <2>1 DEF Finalized
<1>3. QED
  BY <1>1, <1>2 DEF Match

LEMMA MatchStep == TypeOK /\ PayoutsMatch /\ [Next]_vars => PayoutsMatch'
<1> SUFFICES ASSUME TypeOK, PayoutsMatch, [Next]_vars, NEW q \in Payouts
             PROVE  Match(q)'
  BY DEF PayoutsMatch
<1>1. CASE payout'[q] = payout[q]
  BY <1>1, MatchKept DEF PayoutsMatch
<1>2. ASSUME NEW p \in Payouts, NEW n \in 1..MaxAmount, NEW e \in Expenses, PayExpense(p, n, e)
      PROVE  payout'[q] # payout[q] => Match(q)'
  <2>1. payout'[q] # payout[q] =>
          payout'[q] = [kind |-> "expense", amount |-> n, expense |-> e, run |-> None]
    BY <1>2 DEF PayExpense, AddPayout, TypeOK
  <2>2. expense' = expense /\ expense[e] # NoExpense /\ ~expense[e].paid
    BY <1>2 DEF PayExpense, AddPayout
  <2>3. QED
    BY <2>1, <2>2 DEF Match
<1>3. ASSUME NEW p \in Payouts, NEW n \in 1..MaxAmount, NEW r \in Runs, PayRun(p, n, r)
      PROVE  payout'[q] # payout[q] => Match(q)'
  <2>1. payout'[q] # payout[q] =>
          payout'[q] = [kind |-> "salary", amount |-> n, expense |-> None, run |-> r]
    BY <1>3 DEF PayRun, AddPayout, TypeOK
  <2>2. r \in Finalized'
    BY <1>3 DEF PayRun, AddPayout, Finalized
  <2>3. QED
    BY <2>1, <2>2 DEF Match
<1>4. ASSUME NEW p \in Payouts, NEW n \in 1..MaxAmount, NEW k \in Kinds, PayOut(p, n, k)
      PROVE  payout'[q] # payout[q] => Match(q)'
  <2>1. payout'[q] # payout[q] =>
          payout'[q] = [kind |-> k, amount |-> n, expense |-> None, run |-> None]
    BY <1>4 DEF PayOut, AddPayout, TypeOK
  <2>2. k \in {"salary", "other_expense", "supplier"}
    BY <1>4 DEF PayOut, Kinds
  <2>3. QED
    BY <2>1, <2>2 DEF Match
<1>5. QED
  BY <1>1, <1>2, <1>3, <1>4, Steps DEF vars, NewExpense, Hire, RunPayroll, FinalizeRun

-----------------------------------------------------------------------------
(* The statement.  Expenses are either paid when recorded or not, and the   *)
(* payouts fall into five groups and rows that are not there.               *)

LEMMA ExpenseTotals ==
  ASSUME TypeOK, RunsBounded, PayoutsMatch
  PROVE  /\ Total(ExpenseAmount, Expenses) =
              Total(ExpenseAmount, DirectlyPaid) + Total(ExpenseAmount, Unpaid)
         /\ Total(ExpenseAmount, DirectlyPaid) \in Nat
         /\ Total(ExpenseAmount, Unpaid) \in Nat
<1>1. \A p \in Payouts : payout[p].expense \in Expenses => payout[p].expense \in Unpaid
  BY SettlementsAssumption DEF PayoutsMatch, Match, NoPayout, Unpaid
<1>2. DirectlyPaid \cup Unpaid = Expenses /\ DirectlyPaid \cap Unpaid = {}
  BY <1>1 DEF DirectlyPaid, Unpaid, LinkedExpenses, TypeOK, ExpenseRows, NoExpense
<1>3. IsFiniteSet(DirectlyPaid) /\ IsFiniteSet(Unpaid)
  BY <1>2, SettlementsAssumption, FS_Subset
<1>4. \A e \in DirectlyPaid \cup Unpaid : ExpenseAmount[e] \in 0..MaxAmount
  BY <1>2, AmountTypes
<1>5. MaxAmount \in Nat
  BY BoundTypes
<1>6. Total(ExpenseAmount, DirectlyPaid \cup Unpaid) =
        Total(ExpenseAmount, DirectlyPaid) + Total(ExpenseAmount, Unpaid)
  BY <1>2, <1>3, <1>4, <1>5, TotalUnion
<1>7. /\ Total(ExpenseAmount, DirectlyPaid) \in Nat
      /\ Total(ExpenseAmount, Unpaid) \in Nat
  BY <1>3, <1>4, <1>5, TotalType
<1>8. QED
  BY <1>2, <1>6, <1>7

ForExpenses == {p \in Payouts : payout[p].expense \in Unpaid}
ForRuns == {p \in Payouts : payout[p].run \in Finalized}
ForSalaries == {p \in OfKind({"salary"}) : payout[p].run = None}
NotThere == {p \in Payouts : payout[p] = NoPayout}

(* The groups are told apart by the kind of the payout, and salaries by     *)
(* whether they belong to a run.                                            *)
LEMMA PayoutGroups ==
  ASSUME TypeOK, PayoutsMatch
  PROVE  /\ ForExpenses = OfKind({"expense"})
         /\ ForRuns \cup ForSalaries = OfKind({"salary"})
         /\ ForRuns \cap ForSalaries = {}
         /\ NotThere = {p \in Payouts : payout[p].kind \notin Kinds}
<1>1. None \notin Unpaid \cup Finalized \cup Kinds
  BY SettlementsAssumption DEF Unpaid, Finalized
<1>2. ForExpenses = OfKind({"expense"})
  BY <1>1 DEF PayoutsMatch, Match, NoPayout, ForExpenses, OfKind, Unpaid, Kinds
<1>3. ForRuns \cup ForSalaries = OfKind({"salary"})
  BY <1>1 DEF PayoutsMatch, Match, NoPayout, ForRuns, ForSalaries, OfKind, Kinds
<1>4. ForRuns \cap ForSalaries = {}
  BY <1>1 DEF ForRuns, ForSalaries
<1>5. NotThere = {p \in Payouts : payout[p].kind \notin Kinds}
  BY <1>1 DEF TypeOK, PayoutRows, NoPayout, NotThere
<1>6. QED
  BY <1>2, <1>3, <1>4, <1>5

(* Totals of payouts of disjoint kinds add up. *)
LEMMA KindTotals ==
  ASSUME TypeOK, RunsBounded, NEW A, NEW B, A \cap B = {}
  PROVE  /\ Total(PayoutAmount, OfKind(A \cup B)) =
              Total(PayoutAmount, OfKind(A)) + Total(PayoutAmount, OfKind(B))
         /\ Total(PayoutAmount, OfKind(A)) \in Nat
         /\ Total(PayoutAmount, OfKind(B)) \in Nat
<1>1. /\ OfKind(A \cup B) = OfKind(A) \cup OfKind(B)
      /\ OfKind(A) \cap OfKind(B) = {}
      /\ OfKind(A) \subseteq Payouts /\ OfKind(B) \subseteq Payouts
  BY DEF OfKind
<1>2. IsFiniteSet(OfKind(A)) /\ IsFiniteSet(OfKind(B))
  BY <1>1, SettlementsAssumption, FS_Subset
<1>3. \A p \in OfKind(A) \cup OfKind(B) : PayoutAmount[p] \in 0..MaxAmount
  BY <1>1, AmountTypes
<1>4. MaxAmount \in Nat
  BY BoundTypes
<1>5. Total(PayoutAmount, OfKind(A) \cup OfKind(B)) =
        Total(PayoutAmount, OfKind(A)) + Total(PayoutAmount, OfKind(B))
  BY <1>1, <1>2, <1>3, <1>4, TotalUnion
<1>6. /\ Total(PayoutAmount, OfKind(A)) \in Nat
      /\ Total(PayoutAmount, OfKind(B)) \in Nat
  BY <1>2, <1>3, <1>4, TotalType
<1>7. QED
  BY <1>1, <1>5, <1>6

LEMMA SalaryTotals ==
  ASSUME TypeOK, RunsBounded, PayoutsMatch
  PROVE  /\ Total(PayoutAmount, OfKind({"salary"})) =
              Total(PayoutAmount, ForRuns) + Total(PayoutAmount, ForSalaries)
         /\ Total(PayoutAmount, ForRuns) \in Nat
         /\ Total(PayoutAmount, ForSalaries) \in Nat
<1>1. ForRuns \subseteq Payouts /\ ForSalaries \subseteq Payouts
  BY DEF ForRuns, ForSalaries, OfKind
<1>2. IsFiniteSet(ForRuns) /\ IsFiniteSet(ForSalaries)
  BY <1>1, SettlementsAssumption, FS_Subset
<1>3. \A p \in ForRuns \cup ForSalaries : PayoutAmount[p] \in 0..MaxAmount
  BY <1>1, AmountTypes
<1>4. MaxAmount \in Nat
  BY BoundTypes
<1>5. ForRuns \cap ForSalaries = {} /\ ForRuns \cup ForSalaries = OfKind({"salary"})
  BY PayoutGroups
<1>6. Total(PayoutAmount, ForRuns \cup ForSalaries) =
        Total(PayoutAmount, ForRuns) + Total(PayoutAmount, ForSalaries)
  BY <1>2, <1>3, <1>4, <1>5, TotalUnion
<1>7. /\ Total(PayoutAmount, ForRuns) \in Nat
      /\ Total(PayoutAmount, ForSalaries) \in Nat
  BY <1>2, <1>3, <1>4, TotalType
<1>8. QED
  BY <1>5, <1>6, <1>7

(* The whole of the payouts, kind by kind.  Rows that are not there have no *)
(* amount.                                                                  *)
LEMMA PayoutTotals ==
  ASSUME TypeOK, RunsBounded, PayoutsMatch
  PROVE  /\ Total(PayoutAmount, Payouts) =
              Total(PayoutAmount, ForExpenses) + Total(PayoutAmount, ForRuns)
                + Total(PayoutAmount, ForSalaries)
                + Total(PayoutAmount, OfKind({"other_expense"}))
                + Total(PayoutAmount, OfKind({"supplier"}))
         /\ Total(PayoutAmount, ForExpenses) \in Nat
         /\ Total(PayoutAmount, OfKind({"other_expense"})) \in Nat
         /\ Total(PayoutAmount, OfKind({"supplier"})) \in Nat
<1> DEFINE T(K) == Total(PayoutAmount, OfKind(K))
<1>1. Total(PayoutAmount, Payouts) = Total(PayoutAmount, OfKind(Kinds))
  <2>1. /\ OfKind(Kinds) \cup NotThere = Payouts
        /\ OfKind(Kinds) \cap NotThere = {}
        /\ OfKind(Kinds) \subseteq Payouts
    BY PayoutGroups DEF OfKind, NotThere
  <2>2. Total(PayoutAmount, NotThere) = 0
    <3>1. \A p \in NotThere : PayoutAmount[p] = 0
      BY DEF NotThere, NoPayout, PayoutAmount
    <3>2. QED
      BY <3>1, TotalZero
  <2>3. IsFiniteSet(OfKind(Kinds)) /\ IsFiniteSet(NotThere)
    BY <2>1, SettlementsAssumption, FS_Subset
  <2>4. \A p \in OfKind(Kinds) \cup NotThere : PayoutAmount[p] \in 0..MaxAmount
    BY <2>1, AmountTypes
  <2>5. MaxAmount \in Nat
    BY BoundTypes
  <2>6. Total(PayoutAmount, OfKind(Kinds) \cup NotThere) =
          Total(PayoutAmount, OfKind(Kinds)) + Total(PayoutAmount, NotThere)
    BY <2>1, <2>3, <2>4, <2>5, TotalUnion
  <2>7. Total(PayoutAmount, OfKind(Kinds)) \in Nat
    BY <2>3, <2>4, <2>5, TotalType
  <2>8. QED
    BY <2>1, <2>2, <2>6, <2>7
<1>2. /\ {"salary"} \cup {"other_expense", "expense", "supplier"} = Kinds
      /\ {"other_expense"} \cup {"expense", "supplier"} = {"other_expense", "expense", "supplier"}
      /\ {"expense"} \cup {"supplier"} = {"expense", "supplier"}
  BY DEF Kinds
<1>3. /\ {"salary"} \cap {"other_expense", "expense", "supplier"} = {}
      /\ {"other_expense"} \cap {"expense", "supplier"} = {}
      /\ {"expense"} \cap {"supplier"} = {}
  OBVIOUS
<1>4. /\ T({"salary"} \cup {"other_expense", "expense", "supplier"})
           = T({"salary"}) + T({"other_expense", "expense", "supplier"})
      /\ T({"salary"}) \in Nat
  BY <1>3, KindTotals
<1>5. /\ T({"other_expense"} \cup {"expense", "supplier"})
           = T({"other_expense"}) + T({"expense", "supplier"})
      /\ T({"other_expense"}) \in Nat
  BY <1>3, KindTotals
<1>6. /\ T({"expense"} \cup {"supplier"}) = T({"expense"}) + T({"supplier"})
      /\ T({"expense"}) \in Nat
      /\ T({"supplier"}) \in Nat
  BY <1>3, KindTotals
<1>7. T(Kinds) = T({"salary"}) + (T({"other_expense"}) + (T({"expense"}) + T({"supplier"})))
  BY <1>2, <1>4, <1>5, <1>6
<1>8. T({"expense"}) = Total(PayoutAmount, ForExpenses)
  BY PayoutGroups
<1>9. T({"salary"}) = Total(PayoutAmount, ForRuns) + Total(PayoutAmount, ForSalaries)
  BY SalaryTotals
<1>10. Total(PayoutAmount, ForRuns) \in Nat /\ Total(PayoutAmount, ForSalaries) \in Nat
  BY SalaryTotals
<1> HIDE DEF T
<1>11. Total(PayoutAmount, Payouts) =
         Total(PayoutAmount, ForExpenses) + Total(PayoutAmount, ForRuns)
           + Total(PayoutAmount, ForSalaries) + T({"other_expense"}) + T({"supplier"})
  <2>1. Total(PayoutAmount, Payouts) = T(Kinds)
    BY <1>1 DEF T
  <2>2. QED
    BY <2>1, <1>5, <1>6, <1>7, <1>8, <1>9, <1>10
<1>12. QED
  BY <1>5, <1>6, <1>8, <1>11 DEF T

LEMMA Reconciled ==
  ASSUME TypeOK, RunsBounded, PayoutsMatch
  PROVE  StatementReconciles
<1>1. Total(RunAmount, Finalized) \in Nat
  <2>1. Finalized \subseteq Runs /\ IsFiniteSet(Finalized)
    BY SettlementsAssumption, FS_Subset DEF Finalized
  <2>2. \A r \in Finalized : RunAmount[r] \in 0..RunBound
    BY <2>1, AmountTypes
  <2>3. QED
    BY <2>1, <2>2, BoundTypes, TotalType
<1>2. /\ ExpensesSettled = Total(PayoutAmount, ForExpenses)
      /\ PayrollSettled = Total(PayoutAmount, ForRuns)
      /\ SalaryExpense = Total(RunAmount, Finalized) + Total(PayoutAmount, ForSalaries)
      /\ PayrollBilled = Total(RunAmount, Finalized)
  BY DEF ExpensesSettled, ForExpenses, PayrollSettled, ForRuns, SalaryExpense, ForSalaries,
         PayrollBilled
<1>3. /\ Paid = Total(ExpenseAmount, DirectlyPaid) + Total(PayoutAmount, Payouts)
      /\ ExpensesBilled = Total(ExpenseAmount, Unpaid)
      /\ OperatingExpenses =
           Total(ExpenseAmount, Expenses) + Total(PayoutAmount, OfKind({"other_expense"}))
      /\ OtherOutflows = Total(PayoutAmount, OfKind({"supplier"}))
  BY DEF Paid, ExpensesBilled, OperatingExpenses, OtherOutflows
<1>4. QED
  BY <1>1, <1>2, <1>3, ExpenseTotals, PayoutTotals, SalaryTotals DEF StatementReconciles

-----------------------------------------------------------------------------
(* What is settled of a row.                                                *)

LEMMA SettledTypes ==
  ASSUME TypeOK, RunsBounded
  PROVE  /\ \A e \in Expenses : SettledOfExpense(e) \in Nat
         /\ \A r \in Runs : SettledOfRun(r) \in Nat
<1>1. ASSUME NEW S \in SUBSET Payouts PROVE Total(PayoutAmount, S) \in Nat
  <2>1. IsFiniteSet(S)
    BY SettlementsAssumption, FS_Subset
  <2>2. \A p \in S : PayoutAmount[p] \in 0..MaxAmount
    BY AmountTypes
  <2>3. QED
    BY <2>1, <2>2, BoundTypes, TotalType
<1>2. QED
  BY <1>1 DEF SettledOfExpense, SettledOfRun

(* A payout of n adds n to what is settled of the row it names, and nothing *)
(* to any other.                                                            *)
LEMMA SettledAdded ==
  ASSUME TypeOK, RunsBounded, NEW p \in Payouts, NEW k \in Kinds, NEW n \in 1..MaxAmount,
         NEW x \in Expenses \cup {None}, NEW y \in Runs \cup {None},
         AddPayout(p, k, n, x, y)
  PROVE  /\ \A e \in Expenses : SettledOfExpense(e)' =
              IF e = x THEN SettledOfExpense(e) + n ELSE SettledOfExpense(e)
         /\ \A r \in Runs : SettledOfRun(r)' =
              IF r = y THEN SettledOfRun(r) + n ELSE SettledOfRun(r)
<1> DEFINE f == PayoutAmount
           g == [q \in Payouts |-> payout'[q].amount]
<1>1. /\ payout[p] = NoPayout
      /\ payout'[p] = [kind |-> k, amount |-> n, expense |-> x, run |-> y]
      /\ \A q \in Payouts \ {p} : payout'[q] = payout[q]
  BY DEF AddPayout, TypeOK
<1>2. g[p] = n /\ \A q \in Payouts \ {p} : g[q] = f[q]
  BY <1>1 DEF PayoutAmount
<1>3. \A q \in Payouts : g[q] \in 0..MaxAmount
  BY <1>2, AmountTypes, BoundTypes
<1>4. MaxAmount \in Nat
  BY BoundTypes
<1> HIDE DEF f, g
<1>5. ASSUME NEW S \in SUBSET Payouts, p \notin S
      PROVE  Total(g, S) = Total(f, S) /\ Total(g, S \cup {p}) = Total(f, S) + n
  <2>1. \A q \in S : g[q] = f[q]
    BY <1>2, <1>5
  <2>2. Total(g, S) = Total(f, S)
    BY <2>1, TotalCongruence
  <2>3. IsFiniteSet(S)
    BY SettlementsAssumption, FS_Subset
  <2>4. \A q \in S \cup {p} : g[q] \in 0..MaxAmount
    BY <1>3
  <2>5. Total(g, S \cup {p}) = Total(g, S) + g[p]
    BY <1>4, <1>5, <2>3, <2>4, TotalAdd
  <2>6. QED
    BY <1>2, <2>2, <2>5
<1>6. ASSUME NEW e \in Expenses
      PROVE  SettledOfExpense(e)' =
               IF e = x THEN SettledOfExpense(e) + n ELSE SettledOfExpense(e)
  <2> DEFINE S == {q \in Payouts : payout[q].expense = e}
             R == {q \in Payouts : payout'[q].expense = e}
  <2>1. p \notin S
    BY <1>1, SettlementsAssumption DEF NoPayout
  <2>2. R = IF e = x THEN S \cup {p} ELSE S
    BY <1>1, <2>1
  <2>3. SettledOfExpense(e)' = Total(g, R) /\ SettledOfExpense(e) = Total(f, S)
    BY DEF SettledOfExpense, PayoutAmount, f, g
  <2>4. QED
    BY <1>5, <2>1, <2>2, <2>3
<1>7. ASSUME NEW r \in Runs
      PROVE  SettledOfRun(r)' = IF r = y THEN SettledOfRun(r) + n ELSE SettledOfRun(r)
  <2> DEFINE S == {q \in Payouts : payout[q].run = r}
             R == {q \in Payouts : payout'[q].run = r}
  <2>1. p \notin S
    BY <1>1, SettlementsAssumption DEF NoPayout
  <2>2. R = IF r = y THEN S \cup {p} ELSE S
    BY <1>1, <2>1
  <2>3. SettledOfRun(r)' = Total(g, R) /\ SettledOfRun(r) = Total(f, S)
    BY DEF SettledOfRun, PayoutAmount, f, g
  <2>4. QED
    BY <1>5, <2>1, <2>2, <2>3
<1>8. QED
  BY <1>6, <1>7

LEMMA SettledKept ==
  ASSUME UNCHANGED payout
  PROVE  /\ \A e \in Expenses : SettledOfExpense(e)' = SettledOfExpense(e)
         /\ \A r \in Runs : SettledOfRun(r)' = SettledOfRun(r)
BY DEF SettledOfExpense, SettledOfRun, PayoutAmount

(* What NothingSettledTwice says of one row. *)
ExpenseOK(e) ==
  /\ SettledOfExpense(e) <= expense[e].amount
  /\ expense[e].paid => SettledOfExpense(e) = 0
RunOK(r) ==
  /\ SettledOfRun(r) <= run[r].amount
  /\ SettledOfRun(r) > 0 => run[r].status = "Finalized"

LEMMA SettledInit == Init => NothingSettledTwice
<1> SUFFICES ASSUME Init PROVE NothingSettledTwice
  OBVIOUS
<1>1. \A e \in Expenses : {p \in Payouts : payout[p].expense = e} = {}
  BY SettlementsAssumption DEF Init, NoPayout
<1>2. \A r \in Runs : {p \in Payouts : payout[p].run = r} = {}
  BY SettlementsAssumption DEF Init, NoPayout
<1>3. \A e \in Expenses : SettledOfExpense(e) = 0
  BY <1>1, TotalEmpty DEF SettledOfExpense
<1>4. \A r \in Runs : SettledOfRun(r) = 0
  BY <1>2, TotalEmpty DEF SettledOfRun
<1>5. QED
  BY <1>3, <1>4 DEF Init, NothingSettledTwice, NoExpense, NoRun

LEMMA SettledStep ==
  ASSUME TypeOK, RunsBounded, NothingSettledTwice, [Next]_vars
  PROVE  NothingSettledTwice'
<1> DEFINE Kept == /\ \A e \in Expenses : ExpenseOK(e)'
                   /\ \A r \in Runs : RunOK(r)'
<1>1. SUFFICES Kept
  BY DEF NothingSettledTwice, ExpenseOK, RunOK
<1>2. /\ \A e \in Expenses : ExpenseOK(e) /\ SettledOfExpense(e) \in Nat
      /\ \A r \in Runs : RunOK(r) /\ SettledOfRun(r) \in Nat
  BY SettledTypes DEF NothingSettledTwice, ExpenseOK, RunOK
<1>3. CASE UNCHANGED <<expense, run, payout>>
  BY <1>2, <1>3, SettledKept DEF ExpenseOK, RunOK
<1>4. ASSUME NEW e \in Expenses, NEW n \in 1..MaxAmount, NEW paid \in BOOLEAN,
             NewExpense(e, n, paid)
      PROVE  Kept
  <2>1. /\ \A x \in Expenses : SettledOfExpense(x)' = SettledOfExpense(x)
        /\ \A r \in Runs : SettledOfRun(r)' = SettledOfRun(r)
    BY <1>4, SettledKept DEF NewExpense
  <2>2. SettledOfExpense(e) = 0
    BY <1>2, <1>4 DEF NewExpense, NoExpense, ExpenseOK
  <2>3. /\ expense'[e].amount = n
        /\ \A x \in Expenses \ {e} : expense'[x] = expense[x]
        /\ run' = run
    BY <1>4 DEF NewExpense, TypeOK
  <2>4. QED
    BY <1>2, <2>1, <2>2, <2>3, BoundTypes DEF ExpenseOK, RunOK
<1>5. ASSUME NEW r \in Runs, NEW m \in Periods, RunPayroll(r, m) PROVE Kept
  <2>1. /\ \A x \in Expenses : SettledOfExpense(x)' = SettledOfExpense(x)
        /\ \A s \in Runs : SettledOfRun(s)' = SettledOfRun(s)
    BY <1>5, SettledKept DEF RunPayroll
  <2>2. SettledOfRun(r) = 0
    BY <1>2, <1>5 DEF RunPayroll, NoRun, RunOK
  <2>3. /\ run'[r].amount = Total(salary, hired)
        /\ \A s \in Runs \ {r} : run'[s] = run[s]
        /\ expense' = expense
    BY <1>5 DEF RunPayroll, TypeOK
  <2>4. Total(salary, hired) \in 0..RunBound
    BY PayrollAmount
  <2>5. QED
    BY <1>2, <2>1, <2>2, <2>3, <2>4, BoundTypes DEF ExpenseOK, RunOK
<1>6. ASSUME NEW r \in Runs, FinalizeRun(r) PROVE Kept
  <2>1. /\ \A x \in Expenses : SettledOfExpense(x)' = SettledOfExpense(x)
        /\ \A s \in Runs : SettledOfRun(s)' = SettledOfRun(s)
    BY <1>6, SettledKept DEF FinalizeRun
  <2>2. /\ run'[r].amount = run[r].amount /\ run'[r].status = "Finalized"
        /\ \A s \in Runs \ {r} : run'[s] = run[s]
        /\ expense' = expense
    BY <1>6 DEF FinalizeRun, TypeOK, RunRows, NoRun
  <2>3. QED
    BY <1>2, <2>1, <2>2 DEF ExpenseOK, RunOK
<1>7. ASSUME NEW p \in Payouts, NEW n \in 1..MaxAmount, NEW e \in Expenses, PayExpense(p, n, e)
      PROVE  Kept
  <2>1. /\ AddPayout(p, "expense", n, e, None) /\ "expense" \in Kinds
        /\ n <= expense[e].amount - SettledOfExpense(e)
        /\ ~expense[e].paid
        /\ expense' = expense /\ run' = run
    BY <1>7 DEF PayExpense, AddPayout, Kinds
  <2>2. /\ \A x \in Expenses : SettledOfExpense(x)' =
             IF x = e THEN SettledOfExpense(x) + n ELSE SettledOfExpense(x)
        /\ \A r \in Runs : SettledOfRun(r)' =
             IF r = None THEN SettledOfRun(r) + n ELSE SettledOfRun(r)
    BY <2>1, SettledAdded
  <2>3. expense[e].amount \in Nat
    BY BoundTypes DEF TypeOK, ExpenseRows, NoExpense
  <2>4. QED
    BY <1>2, <2>1, <2>2, <2>3, SettlementsAssumption DEF ExpenseOK, RunOK
<1>8. ASSUME NEW p \in Payouts, NEW n \in 1..MaxAmount, NEW r \in Runs, PayRun(p, n, r)
      PROVE  Kept
  <2>1. /\ AddPayout(p, "salary", n, None, r) /\ "salary" \in Kinds
        /\ n <= run[r].amount - SettledOfRun(r)
        /\ run[r].status = "Finalized"
        /\ expense' = expense /\ run' = run
    BY <1>8 DEF PayRun, AddPayout, Kinds
  <2>2. /\ \A x \in Expenses : SettledOfExpense(x)' =
             IF x = None THEN SettledOfExpense(x) + n ELSE SettledOfExpense(x)
        /\ \A s \in Runs : SettledOfRun(s)' =
             IF s = r THEN SettledOfRun(s) + n ELSE SettledOfRun(s)
    BY <2>1, SettledAdded
  <2>3. run[r].amount \in Nat
    BY BoundTypes DEF RunsBounded
  <2>4. QED
    BY <1>2, <2>1, <2>2, <2>3, SettlementsAssumption DEF ExpenseOK, RunOK
<1>9. ASSUME NEW p \in Payouts, NEW n \in 1..MaxAmount, NEW k \in Kinds, PayOut(p, n, k)
      PROVE  Kept
  <2>1. AddPayout(p, k, n, None, None) /\ expense' = expense /\ run' = run
    BY <1>9 DEF PayOut, AddPayout
  <2>2. /\ \A x \in Expenses : SettledOfExpense(x)' =
             IF x = None THEN SettledOfExpense(x) + n ELSE SettledOfExpense(x)
        /\ \A s \in Runs : SettledOfRun(s)' =
             IF s = None THEN SettledOfRun(s) + n ELSE SettledOfRun(s)
    BY <2>1, SettledAdded
  <2>3. QED
    BY <1>2, <2>1, <2>2, SettlementsAssumption DEF ExpenseOK, RunOK
<1>10. QED
  BY <1>3, <1>4, <1>5, <1>6, <1>7, <1>8, <1>9, Steps DEF vars, Hire

-----------------------------------------------------------------------------
(* Every reachable state satisfies the invariant. *)
THEOREM SettlementsInvariance == Spec => []SettlementsInv
<1>1. Init => SettlementsInv
  BY TypedInit, MatchInit, SettledInit DEF SettlementsInv
<1>2. SettlementsInv /\ [Next]_vars => SettlementsInv'
  BY TypedStep, MatchStep, SettledStep DEF SettlementsInv
<1>3. QED
  BY <1>1, <1>2, PTL DEF Spec

(* Rows are well-formed whatever commands are accepted. *)
THEOREM SettlementsTyped == Spec => []TypeOK
BY SettlementsInvariance, PTL DEF SettlementsInv

(* However a debt is split into payouts, and whatever runs and expenses     *)
(* come in between, it is settled at most once.                             *)
THEOREM NothingIsSettledTwice == Spec => []NothingSettledTwice
BY SettlementsInvariance, PTL DEF SettlementsInv

(* The cash, cost and payable sides of the operating statement agree, for   *)
(* any rows that the commands can produce.                                  *)
THEOREM StatementAlwaysReconciles == Spec => []StatementReconciles
<1>1. SettlementsInv => StatementReconciles
  BY Reconciled DEF SettlementsInv
<1>2. QED
  BY <1>1, SettlementsInvariance, PTL
-----------------------------------------------------------------------------
(* Companies that pay to sign up.                                           *)
LEMMA SignupFinite ==
  ASSUME NEW S
  PROVE  (Signup!IsFiniteSet(S) <=> IsFiniteSet(S)) /\ Signup!Cardinality(S) = Cardinality(S)
BY DEF Signup!IsFiniteSet, IsFiniteSet, Signup!Cardinality, Cardinality

LEMMA SignupFacts ==
  ASSUME SignupAssumption
  PROVE  None \notin Signup!OfferRows /\ None \notin Signup!ProofRows /\ None \notin Signup!Names
BY DEF SignupAssumption, Signup!SignupConstants

(* What the proofs about PaidSignup need beside its properties: a request   *)
(* that has inserted its subscription has its order for itself, and no      *)
(* account has the user name that a request found free, unless a namesake's *)
(* request was under way beside it.                                         *)

ProofFits(q) ==
  LET row == proofs[q] IN
  /\ offers[Signup!OrderOf(row.key)] # None /\ row.name[1] = row.form.name
  /\ row.key \in raced \/ \A a \in accounts : a.name # row.name
  /\ \A r \in Signup!Namesakes(q, row.form) : {row.key, proofs[r].key} \subseteq raced
  /\ Signup!Subscribed(q) => companies[row.key] = 0

SignupInv ==
  /\ offers \in [OrderIds -> Signup!OfferRows \cup {None}]
     /\ proofs \in [Proofs -> Signup!ProofRows \cup {None}]
  /\ companies \in [Signup!Keys -> Nat] /\ Signup!IsFiniteSet(accounts)
  /\ welcomed \subseteq Signup!Keys /\ refused \subseteq Signup!Keys
  /\ \A k \in refused : offers[Signup!OrderOf(k)] # None
  /\ \A q \in Proofs : proofs[q] # None => ProofFits(q)
  /\ \A q, r \in Proofs : q # r /\ Signup!Subscribed(q) /\ Signup!Subscribed(r) =>
     ~Signup!SameKey(q, r)
  /\ Signup!PaidSignupHolds

LEMMA KeyFacts ==
  ASSUME NEW k \in Signup!Keys
  PROVE  Signup!OrderOf(k) \in OrderIds
BY DEF Signup!Keys, Signup!OrderOf

LEMMA SignupInvInit ==
  ASSUME SignupAssumption, Signup!SignupInit
  PROVE  SignupInv
<1>1. IsFiniteSet(accounts)
  BY FS_EmptySet DEF Signup!SignupInit
<1> QED
  BY <1>1, SignupFinite
     DEF Signup!SignupInit, SignupInv, Signup!Subscribed, Signup!At, Signup!PaidSignupHolds,
       Signup!KeyFoundsOnce, Signup!WelcomeIsTrue,
         Signup!PaidIsServed

(* There are not enough accounts to have all the numbers of a full name.    *)
LEMMA NameIsFree ==
  ASSUME IsFiniteSet(accounts), NEW n
  PROVE  \E k \in Nat : Signup!FreeName(n) = <<n, k>> /\ \A a \in accounts : a.name # <<n, k>>
<1>1. PICK c \in Nat : c = Cardinality(accounts)
  BY FS_CardinalityType
<1>2. PICK S : S = {k \in 0..c : \A a \in accounts : a.name # <<n, k>>}
  OBVIOUS
<1>3. S # {}
  <2>1. SUFFICES ASSUME S = {}
                 PROVE  FALSE
    OBVIOUS
  <2>2. \A k \in 0..c : \E a \in accounts : a.name = <<n, k>>
    BY <1>2, <2>1
  <2>3. PICK f : f = [k \in 0..c |-> CHOOSE a \in accounts : a.name = <<n, k>>]
    OBVIOUS
  <2>4. \A k \in 0..c : f[k] \in accounts /\ f[k].name = <<n, k>>
    BY <2>2, <2>3
  <2>5. f \in [0..c -> accounts]
    BY <2>3, <2>4
  <2>6. 0 \in Int /\ c \in Int /\ ~(0 > c)
    BY <1>1
  <2>7. IsFiniteSet(0..c) /\ Cardinality(0..c) = c - 0 + 1
    BY <2>6, FS_Interval
  <2>8. Cardinality(accounts) < Cardinality(0..c)
    BY <1>1, <2>7
  <2>9. \E x, y \in 0..c : x # y /\ f[x] = f[y]
    BY <2>5, <2>7, <2>8, FS_PigeonHole
  <2>10. PICK x \in 0..c, y \in 0..c : x # y /\ f[x] = f[y]
    BY <2>9
  <2>11. <<n, x>> = <<n, y>>
    BY <2>4, <2>10
  <2> QED
    BY <2>10, <2>11
<1>4. S \in SUBSET Nat
  BY <1>1, <1>2
<1>5. PICK k : k = (CHOOSE x \in S : \A y \in S : x <= y)
  OBVIOUS
<1>6. k \in S
  <2>1. \E x \in S : \A y \in S : x <= y
    BY <1>3, <1>4, LeastNumber
  <2> QED
    BY <1>5, <2>1
<1>7. Signup!FreeName(n) = <<n, k>>
  <2>1. Signup!Cardinality(accounts) = c
    BY <1>1, SignupFinite
  <2>2. Signup!FreeName(n) = <<n, Signup!Min(S)>>
    BY <1>2, <2>1 DEF Signup!FreeName
  <2>3. Signup!Min(S) = k
    BY <1>5 DEF Signup!Min
  <2> QED
    BY <2>2, <2>3
<1> QED
  BY <1>2, <1>4, <1>6, <1>7

LEMMA ProofTyped ==
  ASSUME SignupInv, NEW q \in Proofs, proofs[q] # None
  PROVE  /\ proofs[q] \in Signup!ProofRows /\ proofs[q].key \in Signup!Keys
            /\ proofs[q].form \in MCForms
         /\ proofs[q].name \in Signup!Names
            /\ proofs[q].step \in {"user", "subscription", "mail", "commit"}
         /\ offers[Signup!OrderOf(proofs[q].key)] # None
<1>1. proofs[q] \in Signup!ProofRows /\ ProofFits(q)
  BY DEF SignupInv
<1> QED
  BY <1>1 DEF Signup!ProofRows, ProofFits

LEMMA Offered ==
  ASSUME SignupAssumption, SignupInv, NEW o \in OrderIds,
         Signup!Pay(o) \/ \E f \in MCForms : Signup!Offer(o, f)
  PROVE  SignupInv'
<1>1. UNCHANGED <<accounts, proofs, companies, welcomed, lost, refused, raced>>
  BY DEF Signup!Offer, Signup!Pay
<1>2. /\ offers' \in [OrderIds -> Signup!OfferRows \cup {None}]
      /\ \A i \in OrderIds : offers[i] # None => offers'[i] # None
         /\ offers'[i].form = offers[i].form
  <2>1. CASE \E f \in MCForms : Signup!Offer(o, f)
    <3>0. PICK f \in MCForms : Signup!Offer(o, f)
      BY <2>1
    <3>1. PICK new : new = [form |-> f, paid |-> FALSE]
      OBVIOUS
    <3>2. offers[o] = None /\ offers' = [offers EXCEPT ![o] = new] /\ new \in Signup!OfferRows
      BY <3>0, <3>1 DEF Signup!Offer, Signup!OfferRows
    <3> QED
      BY <3>2 DEF SignupInv
  <2>2. CASE Signup!Pay(o)
    <3>1. offers[o] \in Signup!OfferRows /\ offers' = [offers EXCEPT ![o].paid = TRUE]
      BY <2>2 DEF Signup!Pay, SignupInv
    <3>2. PICK old \in Signup!OfferRows : old = offers[o]
      BY <3>1
    <3>3. PICK new : new = [old EXCEPT !.paid = TRUE]
      OBVIOUS
    <3>4. new \in Signup!OfferRows /\ new.form = old.form
      BY <3>2, <3>3 DEF Signup!OfferRows
    <3>5. offers' = [offers EXCEPT ![o] = new]
      BY <3>1, <3>2, <3>3
    <3> QED
      BY <3>2, <3>4, <3>5, SignupFacts DEF SignupInv
  <2> QED
    BY <2>1, <2>2
<1>3. \A i \in refused : offers[Signup!OrderOf(i)] # None
  BY DEF SignupInv
<1>4. \A i \in refused : Signup!OrderOf(i) \in OrderIds
  BY KeyFacts DEF SignupInv
<1>5. \A q \in Proofs : proofs'[q] # None => ProofFits(q)'
  <2>1. SUFFICES ASSUME NEW q \in Proofs, proofs[q] # None
                 PROVE  ProofFits(q)'
    BY <1>1
  <2>2. Signup!OrderOf(proofs[q].key) \in OrderIds
    BY <2>1, ProofTyped, KeyFacts
  <2> QED
    BY <1>1, <1>2, <2>1, <2>2 DEF SignupInv, ProofFits, Signup!Subscribed, Signup!At,
      Signup!Namesakes, Signup!Others
<1>6. Signup!PaidSignupHolds'
  BY <1>1, <1>2, <1>3, <1>4
     DEF SignupInv, Signup!PaidSignupHolds, Signup!KeyFoundsOnce, Signup!WelcomeIsTrue,
       Signup!PaidIsServed, Signup!At
<1> QED
  BY <1>1, <1>2, <1>3, <1>4, <1>5, <1>6 DEF SignupInv, Signup!Subscribed, Signup!At,
    Signup!SameKey

(* One request goes on or ends, and the accounts stay as they are. *)
LEMMA ProofGoesOn ==
  ASSUME SignupAssumption, SignupInv, NEW q \in Proofs, proofs[q] # None,
         NEW new \in Signup!ProofRows \cup {None}, proofs' = [proofs EXCEPT ![q] = new],
         new # None => /\ new.key = proofs[q].key /\ new.form = proofs[q].form
                       /\ new.name = proofs[q].name,
         new # None /\ new.step \in {"mail", "commit"} =>
           /\ companies[new.key] = 0
           /\ \A r \in Proofs \ {q} : Signup!Subscribed(r) => ~Signup!SameKey(q, r),
         UNCHANGED <<offers, accounts, companies, raced>>,
         welcomed' \subseteq Signup!Keys, refused' \subseteq refused \cup {proofs[q].key},
         Signup!PaidSignupHolds'
  PROVE  SignupInv'
<1>1. /\ proofs' \in [Proofs -> Signup!ProofRows \cup {None}] /\ proofs'[q] = new
      /\ \A r \in Proofs \ {q} : proofs'[r] = proofs[r]
  BY DEF SignupInv
<1>2. \A r \in Proofs : proofs'[r] # None =>
        /\ proofs[r] # None /\ proofs'[r].key = proofs[r].key
        /\ proofs'[r].form = proofs[r].form /\ proofs'[r].name = proofs[r].name
  BY <1>1
<1>3. ASSUME NEW r \in Proofs, proofs'[r] # None
      PROVE  ProofFits(r)'
  <2>1. ProofFits(r) /\ proofs[r] # None
    BY <1>2, <1>3 DEF SignupInv
  <2>2. \A s \in Signup!Namesakes(r, proofs[r].form)' :
          s \in Signup!Namesakes(r, proofs[r].form) /\ proofs'[s].key = proofs[s].key
    BY <1>2, <1>3, <2>1 DEF Signup!Namesakes, Signup!Others
  <2>3. Signup!Subscribed(r)' => companies[proofs[r].key] = 0
    <3>1. CASE r = q
      BY <1>1, <1>3, <3>1 DEF Signup!Subscribed, Signup!At
    <3>2. CASE r # q
      BY <1>1, <2>1, <3>2 DEF ProofFits, Signup!Subscribed, Signup!At
    <3> QED
      BY <3>1, <3>2
  <2> QED
    BY <1>2, <1>3, <2>1, <2>2, <2>3 DEF ProofFits
<1>4. \A r, s \in Proofs : r # s /\ Signup!Subscribed(r)' /\ Signup!Subscribed(s)' =>
        ~Signup!SameKey(r, s)'
  <2>1. \A r \in Proofs \ {q}, s \in Proofs \ {q} :
          r # s /\ Signup!Subscribed(r)' /\ Signup!Subscribed(s)' => ~Signup!SameKey(r, s)'
    BY <1>1 DEF SignupInv, Signup!Subscribed, Signup!At, Signup!SameKey
  <2>2. \A r \in Proofs \ {q} : Signup!Subscribed(r)' /\ Signup!Subscribed(q)' =>
          ~Signup!SameKey(r, q)' /\ ~Signup!SameKey(q, r)'
    BY <1>1, <1>2 DEF Signup!Subscribed, Signup!At, Signup!SameKey
  <2> QED
    BY <2>1, <2>2
<1>5. refused' \subseteq Signup!Keys /\ \A k \in refused' : offers'[Signup!OrderOf(k)] # None
  BY ProofTyped DEF SignupInv
<1> QED
  BY <1>1, <1>3, <1>4, <1>5 DEF SignupInv

LEMMA ProofBegun ==
  ASSUME SignupAssumption, SignupInv, NEW q \in Proofs, NEW k \in Signup!Keys, NEW f \in MCForms,
         NEW signed \in BOOLEAN, Signup!Prove(q, k, f, signed)
  PROVE  SignupInv'
<1>1. /\ proofs[q] = None /\ offers[Signup!OrderOf(k)] # None
      /\ UNCHANGED <<offers, accounts, companies, welcomed, lost>>
  BY DEF Signup!Prove
<1>2. CASE Signup!AddressTaken(f.email)
  <2>1. refused' = Signup!Refused(k, f) /\ UNCHANGED <<proofs, raced>>
    BY <1>2 DEF Signup!Prove
  <2>2. \A i \in refused' : i \in refused \/ (i = k /\ f = offers[Signup!OrderOf(k)].form)
    BY <2>1 DEF Signup!Refused
  <2>3. Signup!PaidIsServed'
    BY <1>1, <1>2, <2>1, <2>2 DEF Signup!AddressTaken, SignupInv, Signup!PaidSignupHolds,
      Signup!PaidIsServed
  <2>4. Signup!PaidSignupHolds'
    BY <1>1, <2>1, <2>3 DEF SignupInv, Signup!PaidSignupHolds, Signup!KeyFoundsOnce,
      Signup!WelcomeIsTrue, Signup!At
  <2>5. \A r \in Proofs : proofs'[r] # None => ProofFits(r)'
    BY <1>1, <2>1 DEF SignupInv, ProofFits, Signup!Subscribed, Signup!At, Signup!Namesakes,
      Signup!Others
  <2>6. refused' \subseteq Signup!Keys /\ \A i \in refused' : offers'[Signup!OrderOf(i)] # None
    BY <1>1, <2>2 DEF SignupInv
  <2> QED
    BY <1>1, <2>1, <2>4, <2>5, <2>6 DEF SignupInv, Signup!Subscribed, Signup!At, Signup!SameKey
<1>3. CASE ~Signup!AddressTaken(f.email)
  <2>0. IsFiniteSet(accounts)
    BY SignupFinite DEF SignupInv
  <2>1. PICK n \in Nat : /\ Signup!FreeName(f.name) = <<f.name, n>>
                         /\ \A a \in accounts : a.name # <<f.name, n>>
    BY <2>0, NameIsFree
  <2>2. PICK name : name = <<f.name, n>>
    OBVIOUS
  <2>3. name \in Signup!Names /\ name[1] = f.name
    BY <2>2 DEF Signup!Names
  <2>4. PICK new : new = [key |-> k, form |-> f, name |-> name, step |-> "user"]
    OBVIOUS
  <2>5. /\ new \in Signup!ProofRows /\ new.key = k /\ new.form = f /\ new.name = name
        /\ new.step = "user" /\ new # None
    BY <2>3, <2>4, SignupFacts DEF Signup!ProofRows
  <2>6. /\ proofs' = [proofs EXCEPT ![q] = new] /\ UNCHANGED refused
        /\ raced' = raced \cup UNION {{k, proofs[r].key} : r \in Signup!Namesakes(q, f)}
    BY <1>3, <2>1, <2>2, <2>4 DEF Signup!Prove
  <2>7. /\ proofs' \in [Proofs -> Signup!ProofRows \cup {None}] /\ proofs'[q] = new
        /\ \A r \in Proofs \ {q} : proofs'[r] = proofs[r]
    BY <2>5, <2>6 DEF SignupInv
  <2>8. \A r \in Signup!Namesakes(q, f) : {k, proofs[r].key} \subseteq raced'
    BY <2>6
  <2>9. ProofFits(q)'
    <3>1. Signup!Namesakes(q, f)' = Signup!Namesakes(q, f)
      BY <2>7 DEF Signup!Namesakes, Signup!Others
    <3>2. \A r \in Signup!Namesakes(q, f) : proofs'[r] = proofs[r]
      BY <2>7 DEF Signup!Namesakes, Signup!Others
    <3>3. Signup!Namesakes(q, proofs[q].form)' = Signup!Namesakes(q, f)
      BY <2>5, <2>7, <3>1 DEF Signup!Namesakes, Signup!Others
    <3>4. ~Signup!Subscribed(q)'
      BY <2>5, <2>7 DEF Signup!Subscribed, Signup!At
    <3> QED
      BY <1>1, <2>1, <2>2, <2>3, <2>5, <2>7, <2>8, <3>2, <3>3, <3>4 DEF ProofFits
  <2>10. ASSUME NEW r \in Proofs \ {q}, proofs'[r] # None
         PROVE  ProofFits(r)'
    <3>1. ProofFits(r) /\ proofs'[r] = proofs[r] /\ proofs[r] # None
      BY <2>7, <2>10 DEF SignupInv
    <3>2. \A s \in Signup!Namesakes(r, proofs[r].form)' :
            \/ s \in Signup!Namesakes(r, proofs[r].form) /\ proofs'[s] = proofs[s]
            \/ s = q /\ r \in Signup!Namesakes(q, f)
      BY <2>5, <2>7, <3>1 DEF Signup!Namesakes, Signup!Others
    <3>3. \A s \in Signup!Namesakes(r, proofs[r].form)' :
            {proofs[r].key, proofs'[s].key} \subseteq raced'
      <4>1. SUFFICES ASSUME NEW s \in Signup!Namesakes(r, proofs[r].form)'
                     PROVE  proofs[r].key \in raced' /\ proofs'[s].key \in raced'
        OBVIOUS
      <4>2. CASE s \in Signup!Namesakes(r, proofs[r].form) /\ proofs'[s] = proofs[s]
        BY <2>6, <3>1, <4>2 DEF ProofFits
      <4>3. CASE s = q /\ r \in Signup!Namesakes(q, f)
        BY <2>5, <2>7, <2>8, <4>3
      <4> QED
        BY <3>2, <4>2, <4>3
    <3>4. Signup!Subscribed(r)' <=> Signup!Subscribed(r)
      BY <3>1 DEF Signup!Subscribed, Signup!At
    <3> QED
      BY <1>1, <2>6, <3>1, <3>3, <3>4 DEF ProofFits
  <2>11. \A r, s \in Proofs : r # s /\ Signup!Subscribed(r)' /\ Signup!Subscribed(s)' =>
           ~Signup!SameKey(r, s)'
    BY <2>5, <2>7 DEF SignupInv, Signup!Subscribed, Signup!At, Signup!SameKey
  <2>12. Signup!PaidSignupHolds'
    <3>1. Signup!WelcomeIsTrue'
      BY <1>1, <2>7 DEF SignupInv, Signup!PaidSignupHolds, Signup!WelcomeIsTrue, Signup!At
    <3> QED
      BY <1>1, <2>6, <3>1 DEF SignupInv, Signup!PaidSignupHolds, Signup!KeyFoundsOnce,
        Signup!PaidIsServed
  <2> QED
    BY <1>1, <2>6, <2>7, <2>9, <2>10, <2>11, <2>12 DEF SignupInv
<1> QED
  BY <1>2, <1>3

(* A request is refused after the first look: a name, an address or a phone has been taken *)
(* meanwhile, or the order has its company.                                 *)
LEMMA ProofRefused ==
  ASSUME SignupAssumption, SignupInv, NEW q \in Proofs,
         Signup!At(q, "user") \/ Signup!At(q, "subscription"), Signup!RollBack(q),
         \/ \E a \in accounts : Signup!Clash(Signup!User(proofs[q]), a)
         \/ companies[proofs[q].key] > 0
  PROVE  SignupInv'
<1>1. proofs[q] # None /\ ~Signup!At(q, "commit")
  BY DEF Signup!At
<1>2. /\ proofs[q].key \in Signup!Keys /\ proofs[q].form \in MCForms
      /\ ProofFits(q)
  BY <1>1, ProofTyped DEF SignupInv
<1>3. /\ proofs' = [proofs EXCEPT ![q] = None]
      /\ \A r \in Proofs \ {q} : proofs'[r] = proofs[r]
      /\ refused' = Signup!Refused(proofs[q].key, proofs[q].form)
      /\ UNCHANGED <<offers, accounts, companies, welcomed, lost, raced>>
  BY DEF Signup!RollBack, SignupInv
<1>4. Signup!WelcomeIsTrue'
  BY <1>1, <1>3 DEF SignupInv, Signup!PaidSignupHolds, Signup!WelcomeIsTrue, Signup!At
<1>5. \A o \in refused' : o \in refused \/ (o = proofs[q].key /\ proofs[q].form = offers[Signup!OrderOf(o)].form)
  BY <1>3 DEF Signup!Refused
<1>6. \/ companies[proofs[q].key] = 1 \/ proofs[q].key \in raced
      \/ \E a \in accounts : \/ a.email = proofs[q].form.email
                             \/ a.phone = proofs[q].form.phone
  <2>1. CASE \E a \in accounts : Signup!Clash(Signup!User(proofs[q]), a)
    BY <1>2, <2>1 DEF Signup!Clash, Signup!User, ProofFits
  <2>2. CASE companies[proofs[q].key] > 0
    BY <1>2, <2>2 DEF SignupInv, Signup!PaidSignupHolds, Signup!KeyFoundsOnce
  <2> QED
    BY <2>1, <2>2
<1>7. Signup!PaidIsServed'
  BY <1>3, <1>5, <1>6 DEF SignupInv, Signup!PaidSignupHolds, Signup!PaidIsServed
<1>8. Signup!PaidSignupHolds'
  BY <1>3, <1>4, <1>7 DEF SignupInv, Signup!PaidSignupHolds, Signup!KeyFoundsOnce
<1>9. refused' \subseteq refused \cup {proofs[q].key} /\ welcomed' \subseteq Signup!Keys
  BY <1>3, <1>5 DEF SignupInv
<1>10. PICK new : new = None
  OBVIOUS
<1>11. /\ new \in Signup!ProofRows \cup {None} /\ proofs' = [proofs EXCEPT ![q] = new]
       /\ UNCHANGED <<offers, accounts, companies, raced>>
  BY <1>3, <1>10
<1> QED
  BY <1>1, <1>8, <1>9, <1>10, <1>11, ProofGoesOn

(* The next step of a request, as a row.                                    *)
LEMMA NextStep ==
  ASSUME SignupAssumption, SignupInv, NEW q \in Proofs, proofs[q] # None,
         NEW step \in {"user", "subscription", "mail", "commit"},
         proofs' = [proofs EXCEPT ![q].step = step]
  PROVE  \E new \in Signup!ProofRows :
           /\ proofs' = [proofs EXCEPT ![q] = new] /\ new # None
           /\ new.key = proofs[q].key /\ new.form = proofs[q].form
           /\ new.name = proofs[q].name /\ new.step = step
<1>1. PICK old \in Signup!ProofRows : old = proofs[q]
  BY ProofTyped
<1>2. PICK new : new = [old EXCEPT !.step = step]
  OBVIOUS
<1>3. /\ new \in Signup!ProofRows /\ new.key = old.key /\ new.form = old.form
      /\ new.name = old.name /\ new.step = step
  BY <1>1, <1>2 DEF Signup!ProofRows
<1>4. proofs' = [proofs EXCEPT ![q] = new]
  BY <1>1, <1>2
<1> QED
  BY <1>1, <1>3, <1>4, SignupFacts

LEMMA UserAdded ==
  ASSUME SignupAssumption, SignupInv, NEW q \in Proofs, Signup!AddUser(q)
  PROVE  SignupInv'
<1>1. Signup!At(q, "user") /\ proofs[q] # None
  BY DEF Signup!AddUser, Signup!At
<1>2. CASE \E a \in accounts : Signup!Clash(Signup!User(proofs[q]), a)
  BY <1>1, <1>2, ProofRefused DEF Signup!AddUser
<1>3. CASE ~\E a \in accounts : Signup!Clash(Signup!User(proofs[q]), a)
  <2>1. /\ proofs' = [proofs EXCEPT ![q].step = "subscription"]
        /\ UNCHANGED <<offers, accounts, companies, welcomed, lost, refused, raced>>
    BY <1>3 DEF Signup!AddUser
  <2>2. PICK new \in Signup!ProofRows :
          /\ proofs' = [proofs EXCEPT ![q] = new] /\ new # None
          /\ new.key = proofs[q].key /\ new.form = proofs[q].form
          /\ new.name = proofs[q].name /\ new.step = "subscription"
    BY <1>1, <2>1, NextStep
  <2>3. \A r \in Proofs \ {q} : proofs'[r] = proofs[r]
    BY <2>1 DEF SignupInv
  <2>4. ~Signup!At(q, "commit")
    BY <1>1 DEF Signup!At
  <2>5. Signup!WelcomeIsTrue'
    BY <2>1, <2>3, <2>4 DEF SignupInv, Signup!PaidSignupHolds, Signup!WelcomeIsTrue, Signup!At
  <2>6. Signup!PaidSignupHolds'
    BY <2>1, <2>5 DEF SignupInv, Signup!PaidSignupHolds, Signup!KeyFoundsOnce, Signup!PaidIsServed
  <2>7. welcomed' \subseteq Signup!Keys /\ refused' \subseteq refused \cup {proofs[q].key}
    BY <2>1 DEF SignupInv
  <2>8. new \in Signup!ProofRows \cup {None} /\ UNCHANGED <<offers, accounts, companies, raced>>
    BY <2>1
  <2>9. ~(new # None /\ new.step \in {"mail", "commit"})
    BY <2>2
  <2> QED
    BY <1>1, <2>2, <2>6, <2>7, <2>8, <2>9, ProofGoesOn
<1> QED
  BY <1>2, <1>3

LEMMA SubscriptionAdded ==
  ASSUME SignupAssumption, SignupInv, NEW q \in Proofs, Signup!AddSubscription(q)
  PROVE  SignupInv'
<1>1. Signup!At(q, "subscription") /\ proofs[q] # None
  BY DEF Signup!AddSubscription, Signup!At
<1>2. CASE companies[proofs[q].key] > 0
  BY <1>1, <1>2, ProofRefused DEF Signup!AddSubscription
<1>3. CASE ~(companies[proofs[q].key] > 0)
  <2>1. /\ proofs' = [proofs EXCEPT ![q].step = "mail"]
        /\ UNCHANGED <<offers, accounts, companies, welcomed, lost, refused, raced>>
    BY <1>3 DEF Signup!AddSubscription
  <2>2. PICK new \in Signup!ProofRows :
          /\ proofs' = [proofs EXCEPT ![q] = new] /\ new # None
          /\ new.key = proofs[q].key /\ new.form = proofs[q].form
          /\ new.name = proofs[q].name /\ new.step = "mail"
    BY <1>1, <2>1, NextStep
  <2>3. \A r \in Proofs \ {q} : proofs'[r] = proofs[r]
    BY <2>1 DEF SignupInv
  <2>4. ~Signup!At(q, "commit")
    BY <1>1 DEF Signup!At
  <2>5. Signup!WelcomeIsTrue'
    BY <2>1, <2>3, <2>4 DEF SignupInv, Signup!PaidSignupHolds, Signup!WelcomeIsTrue, Signup!At
  <2>6. Signup!PaidSignupHolds'
    BY <2>1, <2>5 DEF SignupInv, Signup!PaidSignupHolds, Signup!KeyFoundsOnce, Signup!PaidIsServed
  <2>7. welcomed' \subseteq Signup!Keys /\ refused' \subseteq refused \cup {proofs[q].key}
    BY <2>1 DEF SignupInv
  <2>8. new \in Signup!ProofRows \cup {None} /\ UNCHANGED <<offers, accounts, companies, raced>>
    BY <2>1
  <2>9. companies[new.key] = 0
    BY <1>1, <1>3, <2>2, ProofTyped DEF SignupInv
  <2>10. \A r \in Proofs \ {q} : Signup!Subscribed(r) => ~Signup!SameKey(q, r)
    BY DEF Signup!AddSubscription, Signup!Subscribed, Signup!At, Signup!Others
  <2> QED
    BY <1>1, <2>2, <2>6, <2>7, <2>8, <2>9, <2>10, ProofGoesOn
<1> QED
  BY <1>2, <1>3

LEMMA MailLeft ==
  ASSUME SignupAssumption, SignupInv, NEW q \in Proofs, Signup!Welcome(q)
  PROVE  SignupInv'
<1>1. Signup!At(q, "mail") /\ proofs[q] # None
  BY DEF Signup!Welcome, Signup!At
<1>2. /\ proofs' = [proofs EXCEPT ![q].step = "commit"]
      /\ \A o \in welcomed' : o \in welcomed \/ o = proofs[q].key
      /\ UNCHANGED <<offers, accounts, companies, lost, refused, raced>>
  BY DEF Signup!Welcome
<1>3. PICK new \in Signup!ProofRows :
        /\ proofs' = [proofs EXCEPT ![q] = new] /\ new # None
        /\ new.key = proofs[q].key /\ new.form = proofs[q].form
        /\ new.name = proofs[q].name /\ new.step = "commit"
  BY <1>1, <1>2, NextStep
<1>4. /\ \A r \in Proofs \ {q} : proofs'[r] = proofs[r]
      /\ proofs'[q] = new
  BY <1>3 DEF SignupInv
<1>5. Signup!WelcomeIsTrue'
  <2>1. ~Signup!At(q, "commit")
    BY <1>1 DEF Signup!At
  <2>2. Signup!At(q, "commit")' /\ proofs'[q].key = proofs[q].key
    BY <1>3, <1>4 DEF Signup!At
  <2> QED
    BY <1>2, <1>4, <2>1, <2>2 DEF SignupInv, Signup!PaidSignupHolds, Signup!WelcomeIsTrue, Signup!At
<1>6. Signup!PaidSignupHolds'
  BY <1>2, <1>5 DEF SignupInv, Signup!PaidSignupHolds, Signup!KeyFoundsOnce, Signup!PaidIsServed
<1>7. proofs[q].key \in Signup!Keys
  BY <1>1, ProofTyped
<1>8. welcomed' \subseteq Signup!Keys /\ refused' \subseteq refused \cup {proofs[q].key}
  BY <1>2, <1>7 DEF SignupInv
<1>9. new \in Signup!ProofRows \cup {None} /\ UNCHANGED <<offers, accounts, companies, raced>>
  BY <1>2
<1>10. Signup!Subscribed(q)
  BY <1>1 DEF Signup!Subscribed
<1>11. companies[new.key] = 0
  BY <1>1, <1>3, <1>10 DEF SignupInv, ProofFits
<1>12. \A r \in Proofs \ {q} : Signup!Subscribed(r) => ~Signup!SameKey(q, r)
  BY <1>10 DEF SignupInv
<1> QED
  BY <1>1, <1>3, <1>6, <1>8, <1>9, <1>11, <1>12, ProofGoesOn

LEMMA ProofEnds ==
  ASSUME SignupAssumption, SignupInv, NEW q \in Proofs, Signup!ProofDies(q)
  PROVE  SignupInv'
<1>1. /\ proofs[q] # None /\ proofs' = [proofs EXCEPT ![q] = None]
      /\ lost' = lost \cup ({proofs[q].key} \cap welcomed)
      /\ UNCHANGED <<offers, accounts, companies, welcomed, refused, raced>>
  BY DEF Signup!ProofDies
<1>2. \A r \in Proofs \ {q} : proofs'[r] = proofs[r]
  BY <1>1 DEF SignupInv
<1>3. Signup!WelcomeIsTrue'
  <2>1. SUFFICES ASSUME NEW o \in welcomed
                 PROVE  companies[o] = 1 \/ o \in lost'
                        \/ \E r \in Proofs : Signup!At(r, "commit")' /\ proofs'[r].key = o
    BY <1>1 DEF Signup!WelcomeIsTrue
  <2>2. CASE companies[o] = 1 \/ o \in lost
    BY <1>1, <2>2
  <2>3. CASE \E r \in Proofs : Signup!At(r, "commit") /\ proofs[r].key = o
    <3>1. PICK r \in Proofs : Signup!At(r, "commit") /\ proofs[r].key = o
      BY <2>3
    <3>2. CASE r = q
      BY <1>1, <3>1, <3>2
    <3>3. CASE r # q
      BY <1>2, <3>1, <3>3 DEF Signup!At
    <3> QED
      BY <3>2, <3>3
  <2> QED
    BY <2>2, <2>3 DEF SignupInv, Signup!PaidSignupHolds, Signup!WelcomeIsTrue
<1>4. Signup!PaidSignupHolds'
  BY <1>1, <1>3 DEF SignupInv, Signup!PaidSignupHolds, Signup!KeyFoundsOnce, Signup!PaidIsServed
<1>5. welcomed' \subseteq Signup!Keys /\ refused' \subseteq refused \cup {proofs[q].key}
  BY <1>1 DEF SignupInv
<1>6. PICK new : new = None
  OBVIOUS
<1>7. /\ new \in Signup!ProofRows \cup {None} /\ proofs' = [proofs EXCEPT ![q] = new]
      /\ UNCHANGED <<offers, accounts, companies, raced>>
  BY <1>1, <1>6
<1> QED
  BY <1>1, <1>4, <1>5, <1>6, <1>7, ProofGoesOn

LEMMA ProofCommitted ==
  ASSUME SignupAssumption, SignupInv, NEW q \in Proofs, Signup!Commit(q)
  PROVE  SignupInv'
<1>1. /\ Signup!At(q, "commit") /\ proofs[q] # None /\ Signup!Subscribed(q)
      /\ accounts' = accounts \cup {Signup!User(proofs[q])}
      /\ companies' = [companies EXCEPT ![proofs[q].key] = @ + 1]
      /\ proofs' = [proofs EXCEPT ![q] = None]
      /\ UNCHANGED <<offers, welcomed, lost, refused, raced>>
  BY DEF Signup!Commit, Signup!At, Signup!Subscribed
<1>2. PICK o \in Signup!Keys : o = proofs[q].key
  BY <1>1, ProofTyped
<1>3. /\ proofs' \in [Proofs -> Signup!ProofRows \cup {None}] /\ proofs'[q] = None
      /\ \A r \in Proofs \ {q} : proofs'[r] = proofs[r]
  BY <1>1 DEF SignupInv
<1>4. ProofFits(q) /\ companies[o] = 0
  BY <1>1, <1>2 DEF SignupInv, ProofFits
<1>5. /\ companies' \in [Signup!Keys -> Nat] /\ companies'[o] = 1
      /\ \A i \in Signup!Keys \ {o} : companies'[i] = companies[i]
  BY <1>1, <1>2, <1>4 DEF SignupInv
<1>6. Signup!IsFiniteSet(accounts')
  BY <1>1, SignupFinite, FS_AddElement DEF SignupInv
<1>7. ASSUME NEW r \in Proofs, proofs'[r] # None
      PROVE  ProofFits(r)'
  <2>1. r # q /\ proofs'[r] = proofs[r] /\ ProofFits(r) /\ proofs[r] # None
    BY <1>3, <1>7 DEF SignupInv
  <2>2. \A s \in Signup!Namesakes(r, proofs[r].form)' :
          s \in Signup!Namesakes(r, proofs[r].form) /\ proofs'[s] = proofs[s]
    BY <1>3, <2>1 DEF Signup!Namesakes, Signup!Others
  <2>3. proofs[r].key \in raced \/ \A a \in accounts' : a.name # proofs[r].name
    <3>1. CASE Signup!User(proofs[q]).name = proofs[r].name
      <4>1. proofs[q].name = proofs[r].name
        BY <3>1 DEF Signup!User
      <4>2. proofs[q].form.name = proofs[r].form.name
        BY <1>4, <2>1, <4>1 DEF ProofFits
      <4>3. q \in Signup!Namesakes(r, proofs[r].form)
        BY <1>1, <2>1, <4>2 DEF Signup!Namesakes, Signup!Others
      <4> QED
        BY <2>1, <4>3 DEF ProofFits
    <3>2. CASE Signup!User(proofs[q]).name # proofs[r].name
      BY <1>1, <2>1, <3>2 DEF ProofFits
    <3> QED
      BY <3>1, <3>2
  <2>4. Signup!Subscribed(r)' => companies'[proofs[r].key] = 0
    <3>1. SUFFICES ASSUME Signup!Subscribed(r)'
                   PROVE  companies'[proofs[r].key] = 0
      OBVIOUS
    <3>2. Signup!Subscribed(r)
      BY <2>1, <3>1 DEF Signup!Subscribed, Signup!At
    <3>3. proofs[r].key # o
      BY <1>1, <1>2, <2>1, <3>2 DEF SignupInv, Signup!SameKey
    <3> QED
      BY <1>5, <2>1, <3>2, <3>3, ProofTyped DEF ProofFits
  <2> QED
    BY <1>1, <2>1, <2>2, <2>3, <2>4 DEF ProofFits
<1>8. \A r, s \in Proofs : r # s /\ Signup!Subscribed(r)' /\ Signup!Subscribed(s)' =>
        ~Signup!SameKey(r, s)'
  BY <1>3 DEF SignupInv, Signup!Subscribed, Signup!At, Signup!SameKey
<1>9. Signup!KeyFoundsOnce'
  BY <1>5 DEF SignupInv, Signup!PaidSignupHolds, Signup!KeyFoundsOnce
<1>10. Signup!WelcomeIsTrue'
  <2>1. SUFFICES ASSUME NEW i \in welcomed
                 PROVE  companies'[i] = 1 \/ i \in lost
                        \/ \E r \in Proofs : Signup!At(r, "commit")' /\ proofs'[r].key = i
    BY <1>1 DEF Signup!WelcomeIsTrue
  <2>2. i \in Signup!Keys
    BY DEF SignupInv
  <2>3. CASE i = o
    BY <1>5, <2>3
  <2>4. CASE i # o
    <3>1. companies'[i] = companies[i]
      BY <1>5, <2>2, <2>4
    <3>2. \A r \in Proofs : Signup!At(r, "commit") /\ proofs[r].key = i =>
            Signup!At(r, "commit")' /\ proofs'[r].key = i
      BY <1>2, <1>3, <2>4 DEF Signup!At
    <3> QED
      BY <3>1, <3>2 DEF SignupInv, Signup!PaidSignupHolds, Signup!WelcomeIsTrue
  <2> QED
    BY <2>3, <2>4
<1>11. Signup!PaidIsServed'
  <2>1. \A i \in Signup!Keys : companies[i] = 1 => companies'[i] = 1
    BY <1>4, <1>5
  <2> QED
    BY <1>1, <2>1 DEF SignupInv, Signup!PaidSignupHolds, Signup!PaidIsServed
<1> QED
  BY <1>1, <1>3, <1>5, <1>6, <1>7, <1>8, <1>9, <1>10, <1>11 DEF SignupInv, Signup!PaidSignupHolds

LEMMA JoinedElsewhere ==
  ASSUME SignupAssumption, SignupInv, NEW e, NEW p, Signup!JoinElsewhere(e, p)
  PROVE  SignupInv'
<1>1. PICK new : new = [email |-> e, phone |-> p, name |-> None]
  OBVIOUS
<1>2. /\ accounts' = accounts \cup {new} /\ new.name = None
      /\ UNCHANGED <<offers, proofs, companies, welcomed, lost, refused, raced>>
  BY <1>1 DEF Signup!JoinElsewhere
<1>3. Signup!IsFiniteSet(accounts')
  BY <1>2, SignupFinite, FS_AddElement DEF SignupInv
<1>4. \A q \in Proofs : proofs'[q] # None => ProofFits(q)'
  BY <1>2, ProofTyped, SignupFacts DEF SignupInv, ProofFits, Signup!Subscribed, Signup!At,
    Signup!Namesakes, Signup!Others
<1>5. Signup!PaidSignupHolds'
  BY <1>2 DEF SignupInv, Signup!PaidSignupHolds, Signup!KeyFoundsOnce, Signup!WelcomeIsTrue,
    Signup!PaidIsServed, Signup!At
<1> QED
  BY <1>2, <1>3, <1>4, <1>5 DEF SignupInv, Signup!Subscribed, Signup!At, Signup!SameKey

LEMMA SignupInvStep ==
  ASSUME SignupAssumption, SignupInv, [Signup!SignupNext]_signupVars
  PROVE  SignupInv'
<1>1. CASE UNCHANGED signupVars
  BY <1>1
     DEF signupVars, SignupInv, ProofFits, Signup!Subscribed, Signup!At, Signup!SameKey,
       Signup!Namesakes, Signup!Others,
         Signup!PaidSignupHolds, Signup!KeyFoundsOnce, Signup!WelcomeIsTrue, Signup!PaidIsServed
<1>2. CASE Signup!SignupNext
  <2>1. CASE \E o \in OrderIds : Signup!Pay(o) \/ \E f \in MCForms : Signup!Offer(o, f)
    BY <2>1, Offered
  <2>2. CASE \E q \in Proofs, k \in Signup!Keys, f \in MCForms, signed \in BOOLEAN :
               Signup!Prove(q, k, f, signed)
    BY <2>2, ProofBegun
  <2>3. CASE \E q \in Proofs : Signup!AddUser(q) \/ Signup!AddSubscription(q)
          \/ Signup!Welcome(q) \/ Signup!Commit(q)
                               \/ Signup!ProofDies(q)
    BY <2>3, UserAdded, SubscriptionAdded, MailLeft, ProofCommitted, ProofEnds
  <2>4. CASE \E f \in MCForms : Signup!JoinElsewhere(f.email, f.phone)
          \/ Signup!JoinElsewhere(f.email, None)
    BY <2>4, JoinedElsewhere
  <2> QED
    BY <1>2, <2>1, <2>2, <2>3, <2>4 DEF Signup!SignupNext
<1> QED
  BY <1>1, <1>2

-----------------------------------------------------------------------------
(* The stock of the ERP.                                                    *)
LEMMA StockTotals ==
  ASSUME NEW f, NEW S
  PROVE  Stock!Total(f, S) = Total(f, S)
BY DEF Stock!Total, Total, Stock!Units, Units, Stock!Cardinality, Cardinality

LEMMA StockFacts ==
  ASSUME StockAssumption
  PROVE  /\ IsFiniteSet(Bins) /\ Default \in Bins /\ IsFiniteSet(Reservations)
         /\ MaxHand \in Nat /\ MaxMoves \in Nat /\ Opening \in 0..MaxHand
         /\ None \notin [Bins -> 0..MaxHand] /\ None \notin 0..MaxHand
         /\ None \notin Stock!ReservationRows /\ None \notin Stock!CountRows
<1>1. \A S : Stock!IsFiniteSet(S) <=> IsFiniteSet(S)
  BY DEF Stock!IsFiniteSet, IsFiniteSet
<1> QED
  BY <1>1 DEF StockAssumption, Stock!StockConstants

(* What the open reservations of a balance hold, as rows of them all.       *)
OpenIn(rows, b) ==
  {r \in Reservations : rows[r] # None /\ rows[r].balance = b /\ rows[r].status = "active"}
Holds(rows, b) ==
  [r \in Reservations |-> IF r \in OpenIn(rows, b) THEN rows[r].quantity - rows[r].consumed ELSE 0]

LEMMA HoldsTyped ==
  ASSUME StockAssumption, NEW rows \in [Reservations -> {None} \cup Stock!ReservationRows],
         \A r \in Reservations : rows[r] # None => rows[r].consumed <= rows[r].quantity,
         NEW b
  PROVE  \A r \in Reservations : Holds(rows, b)[r] \in 0..MaxHand
<1>1. SUFFICES ASSUME NEW r \in Reservations
               PROVE  Holds(rows, b)[r] \in 0..MaxHand
  OBVIOUS
<1>2. CASE r \in OpenIn(rows, b)
  <2>1. rows[r] \in Stock!ReservationRows /\ rows[r].consumed <= rows[r].quantity
    BY <1>2 DEF OpenIn
  <2> QED
    BY <1>2, <2>1, StockFacts DEF Holds, Stock!ReservationRows
<1>3. CASE r \notin OpenIn(rows, b)
  BY <1>3, StockFacts DEF Holds
<1> QED
  BY <1>2, <1>3

LEMMA HoldsTotal ==
  ASSUME StockAssumption, NEW rows \in [Reservations -> {None} \cup Stock!ReservationRows],
         \A r \in Reservations : rows[r] # None => rows[r].consumed <= rows[r].quantity,
         NEW b
  PROVE  Stock!Total([r \in OpenIn(rows, b) |-> rows[r].quantity - rows[r].consumed],
                     OpenIn(rows, b))
           = Total(Holds(rows, b), Reservations)
<1>1. PICK A, B : A = OpenIn(rows, b) /\ B = Reservations \ A
  OBVIOUS
<1>2. PICK f, h : /\ f = [r \in OpenIn(rows, b) |-> rows[r].quantity - rows[r].consumed]
                  /\ h = Holds(rows, b)
  OBVIOUS
<1>3. A \subseteq Reservations /\ A \cup B = Reservations /\ A \cap B = {}
  BY <1>1 DEF OpenIn
<1>4. IsFiniteSet(A) /\ IsFiniteSet(B) /\ MaxHand \in Nat
  BY <1>1, <1>3, StockFacts, FS_Subset
<1>5. \A r \in A \cup B : h[r] \in 0..MaxHand
  BY <1>2, <1>3, HoldsTyped
<1>6. Total(h, A \cup B) = Total(h, A) + Total(h, B)
  BY <1>3, <1>4, <1>5, TotalUnion
<1>7. \A r \in B : h[r] = 0
  BY <1>1, <1>2 DEF Holds
<1>8. Total(h, B) = 0
  BY <1>7, TotalZero
<1>9. \A r \in A : f[r] = h[r]
  BY <1>1, <1>2, <1>3 DEF Holds
<1>10. Total(f, A) = Total(h, A)
  BY <1>9, TotalCongruence
<1>11. Total(h, A) \in Nat
  BY <1>4, <1>5, TotalType
<1>12. Total(f, A) = Total(h, Reservations)
  BY <1>3, <1>6, <1>8, <1>10, <1>11
<1>13. Stock!Total(f, A) = Total(f, A)
  BY StockTotals
<1> QED
  BY <1>1, <1>2, <1>12, <1>13

(* ReservedStockIsThere, with these rows.                                   *)
ReservedFor(rows, res) == \A b \in Balances : res[b] = Total(Holds(rows, b), Reservations)
ReservedWithin(res, on) == \A b \in Balances : res[b] <= on[b]

(* What the proofs about StockLedger need beside its properties: a movement *)
(* goes one way, a reversal goes the other way than an earlier movement,    *)
(* which has no other reversal; all the movements together explain the      *)
(* stock; and what a count expects of a balance that nobody has touched is  *)
(* there.                                                                   *)

Undoes(k, j) ==
  /\ j \in 1..(k - 1) /\ moves[k].balance = moves[j].balance
  /\ moves[k].in = moves[j].out /\ moves[k].out = moves[j].in

MovesFit ==
  \A k \in DOMAIN moves :
    /\ moves[k].in = 0 \/ moves[k].out = 0
    /\ moves[k].reverses # 0 =>
         /\ Undoes(k, moves[k].reverses)
         /\ \A j \in DOMAIN moves : moves[j].reverses = moves[k].reverses => j = k

MovesExplain ==
  \A b \in Balances :
    LET mine == {k \in DOMAIN moves : moves[k].balance = b}
    IN  Opening + Stock!Total([k \in mine |-> moves[k].in], mine)
          = hand[b] + Stock!Total([k \in mine |-> moves[k].out], mine)

ReservationsFit ==
  \A r \in Reservations : reservation[r] # None =>
    reservation[r].consumed <= reservation[r].quantity

CountsFit ==
  \A c \in Counts : count[c] # None /\ count[c].unchanged =>
    hand[count[c].balance] = count[c].expected

StockInv ==
  /\ Stock!LedgerTypeOK /\ Stock!ReservedStockIsThere /\ Stock!BinsAddUp
  /\ MovesFit /\ MovesExplain /\ ReservationsFit /\ CountsFit

LEMMA ReservedParts ==
  ASSUME StockAssumption, Stock!LedgerTypeOK, ReservationsFit
  PROVE  Stock!ReservedStockIsThere <=> ReservedFor(reservation, reserved)
           /\ ReservedWithin(reserved, hand)
<1>1. \A b : Stock!Open(b) = OpenIn(reservation, b)
  BY DEF Stock!Open, OpenIn
<1>2. ASSUME NEW b
      PROVE  [r \in Stock!Open(b) |-> Stock!Left(r)]
               = [r \in OpenIn(reservation,
                 b) |-> reservation[r].quantity - reservation[r].consumed]
  BY <1>1 DEF Stock!Left
<1>3. \A b : Stock!Total([r \in Stock!Open(b) |-> Stock!Left(r)], Stock!Open(b))
               = Total(Holds(reservation, b), Reservations)
  BY <1>1, <1>2, HoldsTotal DEF Stock!LedgerTypeOK, ReservationsFit
<1> QED
  BY <1>3 DEF Stock!ReservedStockIsThere, ReservedFor, ReservedWithin

LEMMA ReservedPartsAfter ==
  ASSUME StockAssumption, Stock!LedgerTypeOK', ReservationsFit'
  PROVE  Stock!ReservedStockIsThere' <=>
           ReservedFor(reservation', reserved') /\ ReservedWithin(reserved', hand')
<1>1. \A b : Stock!Open(b)' = OpenIn(reservation', b)
  BY DEF Stock!Open, OpenIn
<1>2. ASSUME NEW b
      PROVE  [r \in Stock!Open(b)' |-> Stock!Left(r)']
               = [r \in OpenIn(reservation',
                 b) |-> reservation'[r].quantity - reservation'[r].consumed]
  BY <1>1 DEF Stock!Left
<1>3. \A b : Stock!Total([r \in Stock!Open(b)' |-> Stock!Left(r)'], Stock!Open(b)')
               = Total(Holds(reservation', b), Reservations)
  BY <1>1, <1>2, HoldsTotal DEF Stock!LedgerTypeOK, ReservationsFit
<1> QED
  BY <1>3 DEF Stock!ReservedStockIsThere, ReservedFor, ReservedWithin

(* The movements of a balance.                                              *)
Of(ms, b) == {k \in DOMAIN ms : ms[k].balance = b}
Came(ms, b) == Total([k \in Of(ms, b) |-> ms[k].in], Of(ms, b))
Went(ms, b) == Total([k \in Of(ms, b) |-> ms[k].out], Of(ms, b))
ExplainedBy(ms, on) == \A b \in Balances : Opening + Came(ms, b) = on[b] + Went(ms, b)

LEMMA MovesExplained == MovesExplain <=> ExplainedBy(moves, hand)
BY StockTotals DEF MovesExplain, ExplainedBy, Came, Went, Of

LEMMA MovesExplainedAfter == MovesExplain' <=> ExplainedBy(moves', hand')
BY StockTotals DEF MovesExplain, ExplainedBy, Came, Went, Of

LEMMA MovesNumbered ==
  ASSUME StockAssumption, NEW ms \in Seq(Stock!Movements)
  PROVE  /\ IsFiniteSet(DOMAIN ms) /\ \A k \in DOMAIN ms : ms[k].in \in 0..MaxHand
         /\ \A k \in DOMAIN ms : ms[k].out \in 0..MaxHand
         /\ \A k \in DOMAIN ms : ms[k].in \in Nat /\ ms[k].out \in Nat
<1>1. Len(ms) \in Nat /\ DOMAIN ms = 1..Len(ms) /\ \A k \in DOMAIN ms : ms[k] \in Stock!Movements
  OBVIOUS
<1>2. IsFiniteSet(DOMAIN ms)
  BY <1>1, Counting
<1>3. \A k \in DOMAIN ms : ms[k].in \in 0..MaxHand /\ ms[k].out \in 0..MaxHand
  BY <1>1 DEF Stock!Movements
<1> QED
  BY <1>2, <1>3, StockFacts

LEMMA MovesTyped ==
  ASSUME StockAssumption, NEW ms \in Seq(Stock!Movements), NEW b
  PROVE  IsFiniteSet(Of(ms, b)) /\ Came(ms, b) \in Nat /\ Went(ms, b) \in Nat
<1>1. IsFiniteSet(Of(ms, b))
  BY MovesNumbered, FS_Subset DEF Of
<1>2. \A k \in Of(ms, b) : /\ [i \in Of(ms, b) |-> ms[i].in][k] \in 0..MaxHand
                           /\ [i \in Of(ms, b) |-> ms[i].out][k] \in 0..MaxHand
  BY MovesNumbered DEF Of
<1> QED
  BY <1>1, <1>2, StockFacts, TotalType DEF Came, Went

(* Whether a movement stands is decided from the last movement back to it.  *)
LEMMA StandsDefined ==
  ASSUME moves \in Seq(Stock!Movements)
  PROVE  \A k \in 1..Len(moves) :
           Stock!Stands[k] = ~\E j \in (k + 1)..Len(moves) : moves[j].reverses = k
             /\ Stock!Stands[j]
<1> DEFINE After(g) == [k \in 1..Len(moves) |->
             ~\E j \in (k + 1)..Len(moves) : moves[j].reverses = k /\ g[j]]
<1>1. \E g : g = After(g)
  <2>1. PICK n \in Nat : n = Len(moves)
    OBVIOUS
  <2> DEFINE Decided(m, g) == \A k \in (m + 1)..n :
               g[k] = ~\E j \in (k + 1)..n : moves[j].reverses = k /\ g[j]
             Ms == {m \in Nat : \E g : Decided(m, g)}
  <2>2. Ms # {} /\ Ms \in SUBSET Nat
    <3>1. \A k \in (n + 1)..n : FALSE
      OBVIOUS
    <3>2. Decided(n, {})
      BY <3>1
    <3> QED
      BY <3>2
  <2>3. PICK m \in Ms : \A i \in Ms : m <= i
    <3> HIDE DEF Ms
    <3> QED
      BY <2>2, LeastNumber
  <2>4. PICK g : Decided(m, g)
    BY <2>3
  <2>5. m = 0
    <3>1. SUFFICES ASSUME m # 0
                   PROVE  FALSE
      OBVIOUS
    <3>2. PICK i \in Nat : m = i + 1
      <4>1. m - 1 \in Nat /\ m = (m - 1) + 1
        BY <2>3, <3>1
      <4> QED
        BY <4>1
    <3> DEFINE h == [k \in Nat |->
                 IF k = m THEN ~\E j \in (m + 1)..n : moves[j].reverses = m /\ g[j] ELSE g[k]]
    <3>3. \A j \in Nat : j # m => h[j] = g[j]
      OBVIOUS
    <3>4. h[m] = ~\E j \in (m + 1)..n : moves[j].reverses = m /\ g[j]
      BY <2>3
    <3> HIDE DEF h
    <3>5. ASSUME NEW k \in (i + 1)..n
          PROVE  h[k] = ~\E j \in (k + 1)..n : moves[j].reverses = k /\ h[j]
      <4>1. k \in Nat /\ (k = m \/ k \in (m + 1)..n)
        BY <2>1, <3>2, <3>5
      <4>2. \A j \in (k + 1)..n : j \in Nat /\ j # m
        BY <2>1, <3>2, <3>5
      <4>3. \A j \in (k + 1)..n : h[j] = g[j]
        BY <3>3, <4>2
      <4>4. (\E j \in (k + 1)..n : moves[j].reverses = k /\ h[j])
              = \E j \in (k + 1)..n : moves[j].reverses = k /\ g[j]
        BY <4>3, Zenon
      <4>5. CASE k = m
        BY <3>4, <4>4, <4>5, Zenon
      <4>6. CASE k \in (m + 1)..n
        <5>1. g[k] = ~\E j \in (k + 1)..n : moves[j].reverses = k /\ g[j]
          BY <2>4, <4>6
        <5>2. k # m
          BY <2>1, <2>3, <4>6
        <5>3. h[k] = g[k]
          BY <3>3, <4>1, <5>2
        <5> QED
          BY <4>4, <5>1, <5>3, Zenon
      <4> QED
        BY <4>1, <4>5, <4>6
    <3>6. Decided(i, h)
      BY <3>5
    <3>7. i \in Ms
      BY <3>6
    <3>8. ~(m <= i)
      BY <3>2
    <3> QED
      BY <2>3, <3>7, <3>8
  <2> DEFINE f == [k \in 1..n |-> g[k]]
  <2>6. \A k \in 1..n : f[k] = g[k]
    OBVIOUS
  <2>7. \A k \in 1..n : g[k] = ~\E j \in (k + 1)..n : moves[j].reverses = k /\ g[j]
    <3>1. 0 + 1 = 1
      OBVIOUS
    <3> QED
      BY <2>4, <2>5, <3>1, Zenon
  <2>8. ASSUME NEW k \in 1..n
        PROVE  f[k] = ~\E j \in (k + 1)..n : moves[j].reverses = k /\ f[j]
    <3>1. \A j \in (k + 1)..n : j \in 1..n
      BY <2>1, <2>8
    <3>2. \A j \in (k + 1)..n : f[j] = g[j]
      BY <2>6, <3>1
    <3> HIDE DEF f
    <3> QED
      BY <2>6, <2>7, <2>8, <3>2, Zenon
  <2>9. f = After(f)
    <3>1. DOMAIN f = 1..Len(moves) /\ f = [k \in 1..Len(moves) |-> f[k]]
      BY <2>1
    <3>2. \A k \in 1..Len(moves) :
            f[k] = ~\E j \in (k + 1)..Len(moves) : moves[j].reverses = k /\ f[j]
      BY <2>1, <2>8
    <3> HIDE DEF f
    <3> QED
      BY <3>1, <3>2, Zenon
  <2> QED
    BY <2>9
<1>2. Stock!Stands = CHOOSE g : g = After(g)
  BY DEF Stock!Stands
<1>3. Stock!Stands = After(Stock!Stands)
  <2> HIDE DEF After
  <2> QED
    BY <1>1, <1>2
<1> QED
  <2>1. \A k \in 1..Len(moves) :
          After(Stock!Stands)[k] = ~\E j \in (k + 1)..Len(moves) : moves[j].reverses = k
            /\ Stock!Stands[j]
    OBVIOUS
  <2> HIDE DEF After
  <2> QED
    BY <1>3, <2>1

(* What was undone and the reversals that stand are as many, and cancel.    *)
LEMMA ReversalsCancel ==
  ASSUME StockAssumption, Stock!LedgerTypeOK, MovesFit, MovesExplain
  PROVE  Stock!ReversalsUndo
<1>0. moves \in Seq(Stock!Movements) /\ DOMAIN moves = 1..Len(moves) /\ Len(moves) \in Nat
  BY DEF Stock!LedgerTypeOK
<1>1. SUFFICES ASSUME NEW b \in Balances, NEW mine,
                      mine = {k \in Stock!Standing : moves[k].balance = b /\ moves[k].reverses = 0}
               PROVE  Opening + Stock!Total([k \in mine |-> moves[k].in], mine)
                        = hand[b] + Stock!Total([k \in mine |-> moves[k].out], mine)
  BY DEF Stock!ReversalsUndo
<1>2. PICK A : A = Of(moves, b)
  OBVIOUS
<1>3. PICK P, Q : /\ P = {k \in A : Stock!Stands[k] /\ moves[k].reverses # 0}
                  /\ Q = {k \in A : ~Stock!Stands[k]}
  OBVIOUS
<1>4. mine = {k \in A : Stock!Stands[k] /\ moves[k].reverses = 0}
  BY <1>1, <1>2 DEF Stock!Standing, Of
<1>5. PICK in, out : /\ in = [k \in DOMAIN moves |-> moves[k].in]
                     /\ out = [k \in DOMAIN moves |-> moves[k].out]
  OBVIOUS
<1>6. IsFiniteSet(A) /\ A \subseteq DOMAIN moves
  BY <1>0, <1>2, MovesTyped DEF Of
<1>7. IsFiniteSet(mine) /\ IsFiniteSet(P) /\ IsFiniteSet(Q)
  BY <1>3, <1>4, <1>6, FS_Subset
<1>8. \A k \in DOMAIN moves : in[k] \in 0..MaxHand /\ out[k] \in 0..MaxHand
  BY <1>0, <1>5, MovesNumbered
<1>9. \A k \in DOMAIN moves :
        Stock!Stands[k] = ~\E j \in (k + 1)..Len(moves) : moves[j].reverses = k /\ Stock!Stands[j]
  BY <1>0, StandsDefined
<1>10. PICK h : h = [k \in P |-> moves[k].reverses]
  OBVIOUS
<1>11. ASSUME NEW k \in P
       PROVE  /\ h[k] \in Q /\ in[k] = out[h[k]] /\ out[k] = in[h[k]]
              /\ \A i \in P : h[i] = h[k] => i = k
  <2>1. k \in DOMAIN moves /\ moves[k].reverses # 0 /\ Stock!Stands[k] /\ moves[k].balance = b
    BY <1>2, <1>3, <1>6 DEF Of
  <2>2. Undoes(k, moves[k].reverses)
    BY <2>1 DEF MovesFit
  <2>3. PICK j : j = moves[k].reverses
    OBVIOUS
  <2>4. /\ j \in 1..(k - 1) /\ moves[j].balance = b
        /\ moves[k].in = moves[j].out /\ moves[k].out = moves[j].in
    BY <2>1, <2>2, <2>3 DEF Undoes
  <2>5. j \in DOMAIN moves /\ k \in (j + 1)..Len(moves)
    BY <1>0, <2>1, <2>4
  <2>6. ~Stock!Stands[j]
    BY <1>9, <2>1, <2>3, <2>5, Zenon
  <2>7. j \in Q
    BY <1>2, <1>3, <2>4, <2>5, <2>6 DEF Of
  <2>8. \A i \in P : h[i] = h[k] => i = k
    BY <1>3, <1>6, <1>10, <2>1 DEF MovesFit
  <2> QED
    BY <1>5, <1>10, <2>1, <2>3, <2>4, <2>5, <2>7, <2>8
<1>12. ASSUME NEW q \in Q
       PROVE  \E k \in P : h[k] = q
  <2>1. q \in DOMAIN moves /\ ~Stock!Stands[q] /\ moves[q].balance = b
    BY <1>2, <1>3, <1>6 DEF Of
  <2>2. \E k \in (q + 1)..Len(moves) : moves[k].reverses = q /\ Stock!Stands[k]
    BY <1>9, <2>1, Zenon
  <2>3. PICK k \in (q + 1)..Len(moves) : moves[k].reverses = q /\ Stock!Stands[k]
    BY <2>2
  <2>4. k \in DOMAIN moves /\ q # 0
    BY <1>0, <2>1
  <2>5. moves[k].balance = b
    BY <2>1, <2>3, <2>4 DEF MovesFit, Undoes
  <2>6. k \in P
    BY <1>2, <1>3, <2>3, <2>4, <2>5 DEF Of
  <2> QED
    BY <1>10, <2>3, <2>6
<1>13. h \in Bijection(P, Q)
  <2>1. h \in [P -> Q]
    BY <1>10, <1>11
  <2>2. \A i, k \in P : h[i] = h[k] => i = k
    BY <1>11
  <2> QED
    BY <1>12, <2>1, <2>2, Zenon DEF Bijection, Injection, Surjection, IsInjective
<1>14. Total(out, Q) = Total(in, P) /\ Total(in, Q) = Total(out, P)
  <2>1. \A k \in P : in[k] \in Int /\ out[k] \in Int
    BY <1>3, <1>6, <1>8, StockFacts
  <2>2. \A k \in P : out[h[k]] = in[k] /\ in[h[k]] = out[k]
    BY <1>11
  <2> QED
    BY <1>7, <1>13, <2>1, <2>2, TotalRenamed
<1>15. /\ A = (mine \cup P) \cup Q /\ (mine \cup P) \cap Q = {} /\ mine \cap P = {}
       /\ IsFiniteSet(mine \cup P) /\ MaxHand \in Nat
  BY <1>3, <1>4, <1>7, StockFacts, FS_Union
<1>16. ASSUME NEW f, \A k \in A : f[k] \in 0..MaxHand
       PROVE  /\ Total(f, A) = (Total(f, mine) + Total(f, P)) + Total(f, Q)
              /\ Total(f, mine) \in Nat /\ Total(f, P) \in Nat /\ Total(f, Q) \in Nat
  <2>1. Total(f, A) = Total(f, mine \cup P) + Total(f, Q)
    BY <1>7, <1>15, <1>16, TotalUnion
  <2>2. \A k \in mine \cup P : f[k] \in 0..MaxHand
    BY <1>15, <1>16
  <2>3. Total(f, mine \cup P) = Total(f, mine) + Total(f, P)
    BY <1>7, <1>15, <2>2, TotalUnion
  <2>4. \A k \in Q : f[k] \in 0..MaxHand
    BY <1>15, <1>16
  <2> QED
    BY <1>7, <1>15, <2>1, <2>2, <2>3, <2>4, TotalType
<1>17. /\ Total(in, A) = (Total(in, mine) + Total(in, P)) + Total(in, Q)
       /\ Total(out, A) = (Total(out, mine) + Total(out, P)) + Total(out, Q)
       /\ Total(in, mine) \in Nat /\ Total(in, P) \in Nat /\ Total(in, Q) \in Nat
       /\ Total(out, mine) \in Nat
  BY <1>6, <1>8, <1>16
<1>18. Opening + Total(in, A) = hand[b] + Total(out, A)
  <2>1. /\ \A k \in A : [i \in A |-> moves[i].in][k] = in[k]
        /\ \A k \in A : [i \in A |-> moves[i].out][k] = out[k]
    BY <1>5, <1>6
  <2>2. Came(moves, b) = Total(in, A) /\ Went(moves, b) = Total(out, A)
    BY <1>2, <2>1, TotalCongruence DEF Came, Went
  <2> QED
    BY <2>2, MovesExplained DEF ExplainedBy
<1>19. /\ Stock!Total([k \in mine |-> moves[k].in], mine) = Total(in, mine)
       /\ Stock!Total([k \in mine |-> moves[k].out], mine) = Total(out, mine)
  <2>1. /\ \A k \in mine : [i \in mine |-> moves[i].in][k] = in[k]
        /\ \A k \in mine : [i \in mine |-> moves[i].out][k] = out[k]
    BY <1>4, <1>5, <1>6
  <2> QED
    BY <2>1, TotalCongruence, StockTotals
<1>20. Opening \in Nat /\ hand[b] \in Nat
  BY StockFacts DEF Stock!LedgerTypeOK
<1>21. Opening + Total(in, mine) = hand[b] + Total(out, mine)
  BY <1>14, <1>17, <1>18, <1>20
<1> QED
  BY <1>19, <1>21

(* What a movement makes of the bins of its balance.                        *)
LEMMA BinsNow ==
  ASSUME StockAssumption, Stock!LedgerTypeOK, Stock!BinsAddUp, NEW b \in Balances
  PROVE  /\ \A n \in Bins : Stock!InBins(b)[n] \in 0..MaxHand
         /\ Stock!InBins(b) \in [Bins -> 0..MaxHand]
         /\ Total(Stock!InBins(b), Bins) = hand[b]
<1>1. IsFiniteSet(Bins) /\ Default \in Bins /\ MaxHand \in Nat /\ hand[b] \in 0..MaxHand
  BY StockFacts DEF Stock!LedgerTypeOK
<1>2. CASE positions[b] # None
  <2>1. Stock!InBins(b) = positions[b] /\ positions[b] \in [Bins -> 0..MaxHand]
    BY <1>2 DEF Stock!InBins, Stock!LedgerTypeOK
  <2>2. Total(positions[b], Bins) = hand[b]
    BY <1>2, StockTotals DEF Stock!BinsAddUp
  <2> QED
    BY <2>1, <2>2
<1>3. CASE positions[b] = None
  <2>1. PICK p : p = [n \in Bins |-> IF n = Default THEN hand[b] ELSE 0]
    OBVIOUS
  <2>2. Stock!InBins(b) = p /\ p \in [Bins -> 0..MaxHand]
    BY <1>1, <1>3, <2>1 DEF Stock!InBins
  <2>3. \A n \in Bins : p[n] \in 0..MaxHand
    BY <2>2
  <2>4. Total(p, Bins) = Total(p, Bins \ {Default}) + p[Default]
    BY <1>1, <2>3, TotalRemove
  <2>5. Total(p, Bins \ {Default}) = 0
    BY <2>1, TotalZero
  <2> QED
    BY <1>1, <2>1, <2>2, <2>3, <2>4, <2>5
<1> QED
  BY <1>2, <1>3

LEMMA BinsMoved ==
  ASSUME StockAssumption, Stock!LedgerTypeOK, Stock!BinsAddUp, NEW m \in Stock!Movements,
         m.in = 0 \/ m.out = 0, NEW q \in [Bins -> 0..MaxHand], q \in Stock!BinsAfter(m)
  PROVE  Total(q, Bins) = hand[m.balance] + m.in - m.out
<1>1. /\ m.balance \in Balances /\ m.in \in 0..MaxHand /\ m.out \in 0..MaxHand
      /\ IsFiniteSet(Bins) /\ Default \in Bins /\ MaxHand \in Nat
  BY StockFacts DEF Stock!Movements
<1>2. PICK b \in Balances : b = m.balance
  BY <1>1
<1>3. PICK p \in [Bins -> 0..MaxHand] : p = Stock!InBins(b)
  BY BinsNow
<1>4. Total(p, Bins) = hand[b] /\ hand[b] \in Nat
  BY <1>3, BinsNow DEF Stock!LedgerTypeOK
<1>5. Total(q, Bins) \in Nat
  BY <1>1, TotalType
<1>6. CASE m.in > 0
  <2>1. q = [p EXCEPT ![Default] = @ + m.in]
    BY <1>2, <1>3, <1>6 DEF Stock!BinsAfter
  <2>2. \A n \in Bins : p[n] \in Nat /\ q[n] \in Nat
    BY <1>1
  <2>3. (\A n \in Bins \ {Default} : q[n] = p[n]) /\ q[Default] = p[Default] + m.in
    BY <1>1, <2>1
  <2>4. Total(q, Bins) - Total(p, Bins) = q[Default] - p[Default]
    <3>1. \A n \in Bins \ {Default} : q[n] = p[n]
      BY <2>3
    <3> QED
      BY <1>1, <2>2, <3>1, TotalChange
  <2> QED
    BY <1>1, <1>2, <1>4, <1>5, <1>6, <2>2, <2>3, <2>4
<1>7. CASE ~(m.in > 0)
  <2>1. Stock!Total(q, Bins) + m.out = Stock!Total(p, Bins)
    BY <1>2, <1>3, <1>7 DEF Stock!BinsAfter
  <2> QED
    BY <1>1, <1>2, <1>4, <1>5, <1>7, <2>1, StockTotals
<1> QED
  BY <1>6, <1>7

(* Movements of different balances, each one way; and either none of them   *)
(* is a reversal or there is one, of a movement that has none yet.          *)
Undo(ms) ==
  /\ Len(ms) = 1
  /\ \E k \in DOMAIN moves :
       /\ ms[1].reverses = k /\ ms[1].balance = moves[k].balance
       /\ ms[1].in = moves[k].out /\ ms[1].out = moves[k].in
       /\ \A j \in DOMAIN moves : moves[j].reverses # k
FitMoves(ms) ==
  /\ ms \in Seq(Stock!Movements)
  /\ \A i, j \in DOMAIN ms : ms[i].balance = ms[j].balance => i = j
  /\ \A k \in DOMAIN ms : ms[k].in = 0 \/ ms[k].out = 0
  /\ (\A k \in DOMAIN ms : ms[k].reverses = 0) \/ Undo(ms)

LEMMA HandMoved ==
  ASSUME StockAssumption, Stock!LedgerTypeOK, Stock!BinsAddUp, NEW ms, FitMoves(ms),
         NEW held \in [Balances -> 0..MaxHand], ReservedWithin(held, hand), Stock!Move(ms, held)
  PROVE  /\ hand' \in [Balances -> 0..MaxHand]
         /\ positions' \in [Balances -> {None} \cup [Bins -> 0..MaxHand]]
         /\ ReservedWithin(held, hand') /\ Stock!BinsAddUp'
         /\ \A b \in Balances : b \notin Stock!Moving(ms) => hand'[b] = hand[b]
         /\ \A k \in DOMAIN ms : hand'[ms[k].balance] = hand[ms[k].balance] + ms[k].in - ms[k].out
<1>0. MaxHand \in Nat /\ None \notin [Bins -> 0..MaxHand]
  BY StockFacts
<1>1. PICK at : at = [b \in Stock!Moving(ms) |-> ms[CHOOSE k \in DOMAIN ms : ms[k].balance = b]]
  OBVIOUS
<1>2. ASSUME NEW k \in DOMAIN ms
      PROVE  ms[k].balance \in Stock!Moving(ms) /\ at[ms[k].balance] = ms[k]
  <2>1. PICK b : b = ms[k].balance
    OBVIOUS
  <2>2. b \in Stock!Moving(ms)
    BY <2>1 DEF Stock!Moving
  <2>3. PICK i : i = CHOOSE j \in DOMAIN ms : ms[j].balance = b
    OBVIOUS
  <2>4. i \in DOMAIN ms /\ ms[i].balance = b
    BY <2>1, <2>3
  <2>5. i = k
    BY <2>1, <2>4 DEF FitMoves
  <2> QED
    BY <1>1, <2>1, <2>2, <2>3, <2>5
<1>3. ASSUME NEW b \in Stock!Moving(ms)
      PROVE  /\ at[b] \in Stock!Movements /\ at[b].balance = b /\ b \in Balances
             /\ at[b].in \in 0..MaxHand /\ at[b].out \in 0..MaxHand
             /\ at[b].in = 0 \/ at[b].out = 0
  <2>1. PICK k \in DOMAIN ms : ms[k].balance = b
    BY DEF Stock!Moving
  <2>2. ms[k] \in Stock!Movements /\ (ms[k].in = 0 \/ ms[k].out = 0)
    BY DEF FitMoves
  <2>3. ms[k].balance \in Balances /\ ms[k].in \in 0..MaxHand /\ ms[k].out \in 0..MaxHand
    BY <2>2 DEF Stock!Movements
  <2> QED
    BY <1>2, <2>1, <2>2, <2>3
<1>4. \A b \in Balances :
         /\ b \in Stock!Moving(ms) => hand'[b] = hand[b] + at[b].in - at[b].out
         /\ b \notin Stock!Moving(ms) => hand'[b] = hand[b]
  <2>1. \A b \in Stock!Moving(ms) : at[b] = ms[CHOOSE k \in DOMAIN ms : ms[k].balance = b]
    BY <1>1
  <2>2. hand' = [b \in Balances |->
           IF b \in Stock!Moving(ms)
           THEN hand[b] + ms[CHOOSE k \in DOMAIN ms : ms[k].balance = b].in
                  - ms[CHOOSE k \in DOMAIN ms : ms[k].balance = b].out
           ELSE hand[b]]
    BY DEF Stock!Move
  <2>4. \A b \in Balances :
          /\ b \in Stock!Moving(ms) =>
               hand'[b] = hand[b] + ms[CHOOSE k \in DOMAIN ms : ms[k].balance = b].in
                            - ms[CHOOSE k \in DOMAIN ms : ms[k].balance = b].out
          /\ b \notin Stock!Moving(ms) => hand'[b] = hand[b]
    BY <2>2
  <2>7. ASSUME NEW b \in Balances
        PROVE  /\ b \in Stock!Moving(ms) => hand'[b] = hand[b] + at[b].in - at[b].out
               /\ b \notin Stock!Moving(ms) => hand'[b] = hand[b]
    BY <2>1, <2>4
  <2> QED
    BY <2>7
<1>5. hand' = [b \in Balances |-> hand'[b]]
  <2>2. hand' = [b \in Balances |->
           IF b \in Stock!Moving(ms)
           THEN hand[b] + ms[CHOOSE k \in DOMAIN ms : ms[k].balance = b].in
                  - ms[CHOOSE k \in DOMAIN ms : ms[k].balance = b].out
           ELSE hand[b]]
    BY DEF Stock!Move
  <2>5. hand' = [b \in Balances |-> hand'[b]]
    <3>1. PICK f : hand' = [b \in Balances |-> f[b]]
      <4>1. PICK f : f = [b \in Balances |->
           IF b \in Stock!Moving(ms)
           THEN hand[b] + ms[CHOOSE k \in DOMAIN ms : ms[k].balance = b].in
                  - ms[CHOOSE k \in DOMAIN ms : ms[k].balance = b].out
           ELSE hand[b]]
        OBVIOUS
      <4>2. hand' = f
        BY <2>2, <4>1, Zenon
      <4>3. f = [b \in Balances |-> f[b]]
        BY <4>1
      <4> QED
        BY <4>2, <4>3
    <3> QED
      BY <3>1
  <2> QED
    BY <2>5
<1>6. \A b \in Stock!Moving(ms) : hand[b] - held[b] >= at[b].out /\ hand[b] + at[b].in <= MaxHand
  <2>1. \A b \in Stock!Moving(ms) : at[b] = ms[CHOOSE k \in DOMAIN ms : ms[k].balance = b]
    BY <1>1
  <2>3. \A b \in Stock!Moving(ms) :
          /\ hand[b] - held[b] >= ms[CHOOSE k \in DOMAIN ms : ms[k].balance = b].out
          /\ hand[b] + ms[CHOOSE k \in DOMAIN ms : ms[k].balance = b].in <= MaxHand
    BY DEF Stock!Move
  <2>6. ASSUME NEW b \in Stock!Moving(ms)
        PROVE  hand[b] - held[b] >= at[b].out /\ hand[b] + at[b].in <= MaxHand
    BY <2>1, <2>3
  <2> QED
    BY <2>6
<1>7. PICK bins \in [Stock!Moving(ms) -> [Bins -> 0..MaxHand]] :
        /\ \A b \in Stock!Moving(ms) : bins[b] \in Stock!BinsAfter(at[b])
        /\ positions' =
           [b \in Balances |-> IF b \in Stock!Moving(ms) THEN bins[b] ELSE positions[b]]
  <2>1. \A b \in Stock!Moving(ms) : at[b] = ms[CHOOSE k \in DOMAIN ms : ms[k].balance = b]
    BY <1>1
  <2>2. \E bins \in [Stock!Moving(ms) -> [Bins -> 0..MaxHand]] :
          /\ \A b \in Stock!Moving(ms) :
               bins[b] \in Stock!BinsAfter(ms[CHOOSE k \in DOMAIN ms : ms[k].balance = b])
          /\ positions' =
             [b \in Balances |-> IF b \in Stock!Moving(ms) THEN bins[b] ELSE positions[b]]
    BY DEF Stock!Move
  <2>3. PICK bins \in [Stock!Moving(ms) -> [Bins -> 0..MaxHand]] :
          /\ \A b \in Stock!Moving(ms) :
               bins[b] \in Stock!BinsAfter(ms[CHOOSE k \in DOMAIN ms : ms[k].balance = b])
          /\ positions' =
             [b \in Balances |-> IF b \in Stock!Moving(ms) THEN bins[b] ELSE positions[b]]
    BY <2>2
  <2>4. ASSUME NEW b \in Stock!Moving(ms)
        PROVE  bins[b] \in Stock!BinsAfter(at[b])
    <3>1. PICK m : m = ms[CHOOSE k \in DOMAIN ms : ms[k].balance = b]
      OBVIOUS
    <3>2. bins[b] \in Stock!BinsAfter(m) /\ at[b] = m
      BY <2>1, <2>3, <3>1
    <3> QED
      BY <3>2
  <2> QED
    BY <2>3, <2>4
<1>8. ASSUME NEW b \in Balances
      PROVE  /\ hand'[b] \in 0..MaxHand /\ held[b] <= hand'[b]
             /\ b \in Stock!Moving(ms) => hand'[b] = hand[b] + at[b].in - at[b].out
             /\ b \notin Stock!Moving(ms) => hand'[b] = hand[b]
  <2>1. hand[b] \in 0..MaxHand /\ held[b] \in 0..MaxHand /\ held[b] <= hand[b]
    BY DEF Stock!LedgerTypeOK, ReservedWithin
  <2>2. CASE b \in Stock!Moving(ms)
    <3>1. hand'[b] = hand[b] + at[b].in - at[b].out
      BY <1>4, <2>2
    <3>2. /\ at[b].in \in 0..MaxHand /\ at[b].out \in 0..MaxHand
          /\ hand[b] - held[b] >= at[b].out /\ hand[b] + at[b].in <= MaxHand
      BY <1>3, <1>6, <2>2
    <3> QED
      BY <1>0, <2>1, <2>2, <3>1, <3>2
  <2>3. CASE b \notin Stock!Moving(ms)
    BY <1>4, <2>1, <2>3
  <2> QED
    BY <2>2, <2>3
<1>9. ASSUME NEW b \in Balances
      PROVE  /\ positions'[b] \in {None} \cup [Bins -> 0..MaxHand]
             /\ positions'[b] # None => Total(positions'[b], Bins) = hand'[b]
  <2>1. CASE b \in Stock!Moving(ms)
    <3>1. positions'[b] = bins[b] /\ bins[b] \in [Bins -> 0..MaxHand]
            /\ bins[b] \in Stock!BinsAfter(at[b])
      BY <1>7, <2>1
    <3>2. Total(bins[b], Bins) = hand[at[b].balance] + at[b].in - at[b].out
      BY <1>3, <2>1, <3>1, BinsMoved
    <3> QED
      BY <1>3, <1>8, <2>1, <3>1, <3>2
  <2>2. CASE b \notin Stock!Moving(ms)
    BY <1>7, <1>8, <2>2, StockTotals DEF Stock!LedgerTypeOK, Stock!BinsAddUp
  <2> QED
    BY <2>1, <2>2
<1>10. Stock!BinsAddUp'
  BY <1>9, StockTotals DEF Stock!BinsAddUp
<1>11. \A k \in DOMAIN ms : hand'[ms[k].balance] = hand[ms[k].balance] + ms[k].in - ms[k].out
  BY <1>2, <1>3, <1>8
<1> QED
  BY <1>7, <1>8, <1>9, <1>10, <1>11, <1>5 DEF ReservedWithin

Appends(old, ms, new) ==
  /\ new \in Seq(Stock!Movements) /\ DOMAIN new = 1..(Len(old) + Len(ms))
  /\ DOMAIN old = 1..Len(old) /\ DOMAIN ms = 1..Len(ms)
  /\ Len(old) \in Nat /\ Len(ms) \in Nat
  /\ \A k \in DOMAIN old : k \in DOMAIN new /\ new[k] = old[k]
  /\ \A k \in DOMAIN ms : Len(old) + k \in DOMAIN new /\ new[Len(old) + k] = ms[k]
  /\ \A k \in DOMAIN new :
       k \in DOMAIN old \/ \E i \in DOMAIN ms : k = Len(old) + i

LEMMA Appended ==
  ASSUME NEW old \in Seq(Stock!Movements), NEW ms \in Seq(Stock!Movements)
  PROVE  Appends(old, ms, old \o ms)
<1>0. PICK new : new = old \o ms
  OBVIOUS
<1>1. /\ new \in Seq(Stock!Movements) /\ Len(new) = Len(old) + Len(ms) /\ DOMAIN new = 1..Len(new)
      /\ DOMAIN old = 1..Len(old) /\ DOMAIN ms = 1..Len(ms)
      /\ Len(old) \in Nat /\ Len(ms) \in Nat
  BY <1>0
<1>2. \A k \in DOMAIN old : k \in DOMAIN new /\ new[k] = old[k]
  BY <1>0, <1>1
<1>3. \A k \in DOMAIN ms : Len(old) + k \in DOMAIN new /\ new[Len(old) + k] = ms[k]
  BY <1>0, <1>1
<1>4. ASSUME NEW k \in DOMAIN new
      PROVE  k \in DOMAIN old \/ \E i \in DOMAIN ms : k = Len(old) + i
  <2>1. CASE k <= Len(old)
    BY <1>1, <2>1
  <2>2. CASE ~(k <= Len(old))
    <3>1. k - Len(old) \in 1..Len(ms) /\ k = Len(old) + (k - Len(old))
      BY <1>1, <2>2
    <3> QED
      BY <1>1, <3>1
  <2> QED
    BY <2>1, <2>2
<1> QED
  BY <1>0, <1>1, <1>2, <1>3, <1>4 DEF Appends

LEMMA AppendedTotals ==
  ASSUME StockAssumption, NEW old \in Seq(Stock!Movements), NEW ms \in Seq(Stock!Movements),
         \A i, j \in DOMAIN ms : ms[i].balance = ms[j].balance => i = j, NEW b
  PROVE  /\ b \notin Stock!Moving(ms) =>
              Came(old \o ms, b) = Came(old, b) /\ Went(old \o ms, b) = Went(old, b)
         /\ \A k \in DOMAIN ms : ms[k].balance = b =>
              /\ Came(old \o ms, b) = Came(old, b) + ms[k].in
              /\ Went(old \o ms, b) = Went(old, b) + ms[k].out
<1>1. PICK new : new = old \o ms /\ Appends(old, ms, new)
  BY Appended
<1>2. /\ new \in Seq(Stock!Movements) /\ DOMAIN new = 1..(Len(old) + Len(ms))
      /\ DOMAIN old = 1..Len(old) /\ DOMAIN ms = 1..Len(ms)
      /\ Len(old) \in Nat /\ Len(ms) \in Nat
      /\ \A k \in DOMAIN old : k \in DOMAIN new /\ new[k] = old[k]
      /\ \A k \in DOMAIN ms : Len(old) + k \in DOMAIN new /\ new[Len(old) + k] = ms[k]
      /\ \A k \in DOMAIN new :
           k \in DOMAIN old \/ \E i \in DOMAIN ms : k = Len(old) + i
  BY <1>1 DEF Appends
<1>3. PICK in, out : /\ in = [k \in DOMAIN new |-> new[k].in]
                     /\ out = [k \in DOMAIN new |-> new[k].out]
  OBVIOUS
<1>4. \A k \in DOMAIN new : in[k] \in Nat /\ out[k] \in Nat
  BY <1>2, <1>3, MovesNumbered
<1>5. Came(new, b) = Total(in, Of(new, b)) /\ Went(new, b) = Total(out, Of(new, b))
  <2>1. /\ \A k \in Of(new, b) : [i \in Of(new, b) |-> new[i].in][k] = in[k]
        /\ \A k \in Of(new, b) : [i \in Of(new, b) |-> new[i].out][k] = out[k]
    BY <1>3 DEF Of
  <2> QED
    BY <2>1, TotalCongruence DEF Came, Went
<1>6. Came(old, b) = Total(in, Of(old, b)) /\ Went(old, b) = Total(out, Of(old, b))
  <2>1. /\ \A k \in Of(old, b) : [i \in Of(old, b) |-> old[i].in][k] = in[k]
        /\ \A k \in Of(old, b) : [i \in Of(old, b) |-> old[i].out][k] = out[k]
    BY <1>2, <1>3 DEF Of
  <2> QED
    BY <2>1, TotalCongruence DEF Came, Went
<1>7. ASSUME b \notin Stock!Moving(ms)
      PROVE  Of(new, b) = Of(old, b)
  <2>1. \A k \in DOMAIN ms : ms[k].balance # b
    BY <1>7 DEF Stock!Moving
  <2> QED
    BY <1>2, <2>1 DEF Of
<1>8. ASSUME NEW k \in DOMAIN ms, ms[k].balance = b
      PROVE  /\ Came(new, b) = Came(old, b) + ms[k].in
             /\ Went(new, b) = Went(old, b) + ms[k].out
  <2>1. PICK n \in DOMAIN new : n = Len(old) + k
    BY <1>2
  <2>2. n \notin DOMAIN old /\ new[n] = ms[k]
    BY <1>2, <2>1
  <2>3. Of(new, b) = Of(old, b) \cup {n}
    <3>1. \A i \in Of(old, b) \cup {n} : i \in Of(new, b)
      BY <1>2, <1>8, <2>2 DEF Of
    <3>2. ASSUME NEW i \in Of(new, b)
          PROVE  i \in Of(old, b) \cup {n}
      <4>1. i \in DOMAIN new /\ new[i].balance = b
        BY DEF Of
      <4>2. CASE i \in DOMAIN old
        BY <1>2, <4>1, <4>2 DEF Of
      <4>3. CASE \E j \in DOMAIN ms : i = Len(old) + j
        <5>1. PICK j \in DOMAIN ms : i = Len(old) + j
          BY <4>3
        <5>2. ms[j].balance = b
          BY <1>2, <4>1, <5>1
        <5> QED
          BY <1>8, <2>1, <5>1, <5>2
      <4> QED
        BY <1>2, <4>1, <4>2, <4>3
    <3> QED
      BY <3>1, <3>2
  <2>4. PICK S : S = Of(old, b)
    OBVIOUS
  <2>5. IsFiniteSet(S) /\ n \notin S
    BY <2>2, <2>4, MovesTyped DEF Of
  <2>6. (\A i \in S \cup {n} : in[i] \in Nat) /\ \A i \in S \cup {n} : out[i] \in Nat
    BY <1>2, <1>4, <2>4 DEF Of
  <2>7. Total(in, S \cup {n}) - Total(in, S) = in[n]
    BY <2>5, <2>6, TotalJoin
  <2>11. Total(out, S \cup {n}) - Total(out, S) = out[n]
    BY <2>5, <2>6, TotalJoin
  <2>8. in[n] = ms[k].in /\ out[n] = ms[k].out
    BY <1>3, <2>2
  <2>9. /\ Came(new, b) \in Nat /\ Went(new, b) \in Nat
        /\ Came(old, b) \in Nat /\ Went(old, b) \in Nat
        /\ in[n] \in Nat /\ out[n] \in Nat
    BY <1>2, <1>4, MovesTyped
  <2> QED
    BY <1>5, <1>6, <2>3, <2>4, <2>7, <2>8, <2>9, <2>11
<1> QED
  BY <1>1, <1>5, <1>6, <1>7, <1>8

LEMMA MovesMoved ==
  ASSUME StockAssumption, Stock!LedgerTypeOK, MovesFit, MovesExplain, NEW ms, FitMoves(ms),
         moves' = moves \o ms, hand' \in [Balances -> 0..MaxHand],
         \A b \in Balances : b \notin Stock!Moving(ms) => hand'[b] = hand[b],
         \A k \in DOMAIN ms :
           hand'[ms[k].balance] = hand[ms[k].balance] + ms[k].in - ms[k].out
  PROVE  moves' \in Seq(Stock!Movements) /\ MovesFit' /\ MovesExplain'
<1>1. PICK old, new : old = moves /\ new = moves' /\ old \in Seq(Stock!Movements)
  BY DEF Stock!LedgerTypeOK
<1>2. ms \in Seq(Stock!Movements) /\ new = old \o ms /\ Appends(old, ms, new)
  <2>1. ms \in Seq(Stock!Movements) /\ new = old \o ms
    BY <1>1 DEF FitMoves
  <2> QED
    BY <1>1, <2>1, Appended
<1>3. /\ new \in Seq(Stock!Movements) /\ DOMAIN new = 1..(Len(old) + Len(ms))
      /\ DOMAIN old = 1..Len(old) /\ DOMAIN ms = 1..Len(ms)
      /\ Len(old) \in Nat /\ Len(ms) \in Nat
      /\ \A k \in DOMAIN old : k \in DOMAIN new /\ new[k] = old[k]
      /\ \A k \in DOMAIN ms : Len(old) + k \in DOMAIN new /\ new[Len(old) + k] = ms[k]
      /\ \A k \in DOMAIN new :
           k \in DOMAIN old \/ \E i \in DOMAIN ms : k = Len(old) + i
  BY <1>2 DEF Appends
<1>4. MovesExplain'
  <2>1. SUFFICES ASSUME NEW b \in Balances
                 PROVE  Opening + Came(new, b) = hand'[b] + Went(new, b)
    BY <1>1, MovesExplainedAfter DEF ExplainedBy
  <2>2. Opening + Came(old, b) = hand[b] + Went(old, b)
    BY <1>1, MovesExplained DEF ExplainedBy
  <2>3. /\ Came(old, b) \in Nat /\ Went(old, b) \in Nat /\ hand[b] \in Nat /\ hand'[b] \in Nat
        /\ Opening \in Nat
    BY <1>1, MovesTyped, StockFacts DEF Stock!LedgerTypeOK
  <2>0. /\ b \notin Stock!Moving(ms) =>
               Came(old \o ms, b) = Came(old, b) /\ Went(old \o ms, b) = Went(old, b)
        /\ \A k \in DOMAIN ms : ms[k].balance = b =>
             /\ Came(old \o ms, b) = Came(old, b) + ms[k].in
             /\ Went(old \o ms, b) = Went(old, b) + ms[k].out
    BY <1>1, <1>2, AppendedTotals DEF FitMoves
  <2>4. CASE b \in Stock!Moving(ms)
    <3>1. PICK k \in DOMAIN ms : ms[k].balance = b
      BY <2>4 DEF Stock!Moving
    <3>2. Came(new, b) = Came(old, b) + ms[k].in /\ Went(new, b) = Went(old, b) + ms[k].out
      BY <1>2, <2>0, <3>1
    <3>3. ms[k].in \in Nat /\ ms[k].out \in Nat
      BY <1>2, MovesNumbered
    <3>4. hand'[b] = hand[b] + ms[k].in - ms[k].out
      BY <3>1
    <3>5. PICK c, w, h, x, y : /\ c = Came(old, b) /\ w = Went(old, b) /\ h = hand[b]
                               /\ x = ms[k].in /\ y = ms[k].out
      OBVIOUS
    <3>6. /\ c \in Nat /\ w \in Nat /\ h \in Nat /\ x \in Nat /\ y \in Nat /\ Opening \in Nat
          /\ Opening + c = h + w
      BY <2>2, <2>3, <3>3, <3>5
    <3>7. Opening + (c + x) = (h + x - y) + (w + y)
      BY <3>6
    <3> QED
      BY <3>2, <3>4, <3>5, <3>7
  <2>5. CASE b \notin Stock!Moving(ms)
    BY <1>2, <2>0, <2>2, <2>5
  <2> QED
    BY <2>4, <2>5
<1>5. \A k \in DOMAIN old : old[k].reverses # 0 =>
        old[k].reverses \in DOMAIN old /\ old[k].reverses \in 1..(k - 1)
  <2>1. SUFFICES ASSUME NEW k \in DOMAIN old, old[k].reverses # 0
                 PROVE  old[k].reverses \in DOMAIN old /\ old[k].reverses \in 1..(k - 1)
    OBVIOUS
  <2>2. old[k].reverses \in 1..(k - 1)
    BY <1>1, <2>1 DEF MovesFit, Undoes
  <2> QED
    BY <1>3, <2>2
<1>6. \A i \in DOMAIN ms, k \in DOMAIN old :
        old[k].reverses # 0 => ms[i].reverses # old[k].reverses
  <2>1. CASE \A i \in DOMAIN ms : ms[i].reverses = 0
    BY <2>1
  <2>2. CASE Undo(ms)
    <3>1. \A i \in DOMAIN ms : i = 1
      BY <1>3, <2>2 DEF Undo
    <3>2. \A j \in DOMAIN old : old[j].reverses # ms[1].reverses
      BY <1>1, <2>2 DEF Undo
    <3> QED
      BY <3>1, <3>2
  <2> QED
    BY <2>1, <2>2 DEF FitMoves
<1>7. ASSUME NEW k \in DOMAIN new
      PROVE  /\ new[k].in = 0 \/ new[k].out = 0
             /\ new[k].reverses # 0 =>
                  /\ new[k].reverses \in 1..(k - 1)
                  /\ new[k].balance = new[new[k].reverses].balance
                  /\ new[k].in = new[new[k].reverses].out
                  /\ new[k].out = new[new[k].reverses].in
                  /\ \A j \in DOMAIN new : new[j].reverses = new[k].reverses => j = k
  <2>1. CASE k \in DOMAIN old
    <3>1. new[k] = old[k] /\ (old[k].in = 0 \/ old[k].out = 0)
      BY <1>1, <1>3, <2>1 DEF MovesFit
    <3>2. ASSUME old[k].reverses # 0
          PROVE  /\ old[k].reverses \in 1..(k - 1)
                 /\ old[k].balance = new[old[k].reverses].balance
                 /\ old[k].in = new[old[k].reverses].out
                 /\ old[k].out = new[old[k].reverses].in
                 /\ \A j \in DOMAIN new : new[j].reverses = old[k].reverses => j = k
      <4>1. PICK r \in DOMAIN old : r = old[k].reverses /\ r \in 1..(k - 1)
        BY <1>5, <2>1, <3>2
      <4>2. new[r] = old[r]
        BY <1>3
      <4>3. old[k].balance = old[r].balance /\ old[k].in = old[r].out /\ old[k].out = old[r].in
        BY <1>1, <2>1, <3>2, <4>1 DEF MovesFit, Undoes
      <4>4. ASSUME NEW j \in DOMAIN new, new[j].reverses = old[k].reverses
            PROVE  j = k
        <5>1. CASE j \in DOMAIN old
          BY <1>1, <1>3, <2>1, <3>2, <4>4, <5>1 DEF MovesFit
        <5>2. CASE \E i \in DOMAIN ms : j = Len(old) + i
          BY <1>3, <1>6, <2>1, <3>2, <4>4, <5>2
        <5> QED
          BY <1>3, <5>1, <5>2
      <4> QED
        BY <4>1, <4>2, <4>3, <4>4
    <3> QED
      BY <3>1, <3>2
  <2>2. CASE \E i \in DOMAIN ms : k = Len(old) + i
    <3>1. PICK i \in DOMAIN ms : k = Len(old) + i
      BY <2>2
    <3>2. new[k] = ms[i] /\ (ms[i].in = 0 \/ ms[i].out = 0)
      BY <1>3, <3>1 DEF FitMoves
    <3>3. ASSUME ms[i].reverses # 0
          PROVE  /\ ms[i].reverses \in 1..(k - 1)
                 /\ ms[i].balance = new[ms[i].reverses].balance
                 /\ ms[i].in = new[ms[i].reverses].out
                 /\ ms[i].out = new[ms[i].reverses].in
                 /\ \A j \in DOMAIN new : new[j].reverses = ms[i].reverses => j = k
      <4>1. Undo(ms)
        BY <3>3 DEF FitMoves
      <4>2. \A j \in DOMAIN ms : j = 1
        BY <1>3, <4>1 DEF Undo
      <4>3. PICK r \in DOMAIN old :
              /\ ms[1].reverses = r /\ ms[1].balance = old[r].balance
              /\ ms[1].in = old[r].out /\ ms[1].out = old[r].in
              /\ \A j \in DOMAIN old : old[j].reverses # r
        BY <1>1, <4>1 DEF Undo
      <4>4. i = 1 /\ r \in 1..(k - 1) /\ new[r] = old[r]
        BY <1>3, <3>1, <4>2
      <4>5. ASSUME NEW j \in DOMAIN new, new[j].reverses = r
            PROVE  j = k
        <5>1. CASE j \in DOMAIN old
          BY <1>3, <4>3, <4>5, <5>1
        <5>2. CASE \E l \in DOMAIN ms : j = Len(old) + l
          BY <3>1, <4>2, <5>2
        <5> QED
          BY <1>3, <5>1, <5>2
      <4> QED
        BY <4>3, <4>4, <4>5
    <3> QED
      BY <3>2, <3>3
  <2> QED
    BY <1>3, <2>1, <2>2
<1>8. MovesFit'
  BY <1>1, <1>7 DEF MovesFit, Undoes
<1> QED
  BY <1>1, <1>3, <1>4, <1>8

(* What counts still note of the balances that were not written.            *)
StillNoted(cs, B) ==
  /\ cs \in [Counts -> {None} \cup Stock!CountRows]
  /\ \A c \in Counts :
       cs[c] # None /\ cs[c].unchanged =>
         /\ count[c] # None /\ count[c].unchanged /\ count[c].balance \notin B
         /\ cs[c].balance = count[c].balance /\ cs[c].expected = count[c].expected
StatusesKept(cs) ==
  \A c \in Counts : /\ cs[c] = None <=> count[c] = None
                    /\ count[c] # None => cs[c].status = count[c].status

LEMMA TouchedNotes ==
  ASSUME StockAssumption, Stock!LedgerTypeOK, NEW B
  PROVE  StillNoted(Stock!Touched(B), B) /\ StatusesKept(Stock!Touched(B))
<1>1. ASSUME NEW c \in Counts
      PROVE  /\ Stock!Touched(B)[c] \in {None} \cup Stock!CountRows
             /\ Stock!Touched(B)[c] = None <=> count[c] = None
             /\ count[c] # None =>
                  /\ Stock!Touched(B)[c].status = count[c].status
                  /\ Stock!Touched(B)[c].unchanged =>
                       /\ count[c].unchanged /\ count[c].balance \notin B
                       /\ Stock!Touched(B)[c].balance = count[c].balance
                       /\ Stock!Touched(B)[c].expected = count[c].expected
  <2>1. count[c] \in {None} \cup Stock!CountRows
    BY DEF Stock!LedgerTypeOK
  <2>2. CASE count[c] # None /\ count[c].balance \in B
    <3>1. PICK old \in Stock!CountRows : old = count[c]
      BY <2>1, <2>2
    <3>2. PICK new : new = [old EXCEPT !.unchanged = FALSE]
      OBVIOUS
    <3>3. Stock!Touched(B)[c] = new
      BY <2>2, <3>1, <3>2 DEF Stock!Touched
    <3>4. new \in Stock!CountRows /\ new.unchanged = FALSE /\ new.status = old.status
      BY <3>2 DEF Stock!CountRows
    <3> QED
      BY <2>2, <3>1, <3>3, <3>4, StockFacts
  <2>3. CASE ~(count[c] # None /\ count[c].balance \in B)
    <3>1. Stock!Touched(B)[c] = count[c]
      BY <2>3 DEF Stock!Touched
    <3> QED
      BY <2>1, <2>3, <3>1
  <2> QED
    BY <2>2, <2>3
<1>2. Stock!Touched(B) \in [Counts -> {None} \cup Stock!CountRows]
  <2>1. Stock!Touched(B) = [c \in Counts |-> Stock!Touched(B)[c]]
    BY DEF Stock!Touched
  <2> QED
    BY <1>1, <2>1
<1> QED
  BY <1>1, <1>2 DEF StillNoted, StatusesKept

LEMMA MoveStep ==
  ASSUME StockAssumption, StockInv, NEW ms, FitMoves(ms), Stock!Move(ms, reserved'),
         reserved' \in [Balances -> 0..MaxHand], ReservedWithin(reserved', reserved),
         reservation' \in [Reservations -> {None} \cup Stock!ReservationRows], ReservationsFit',
         ReservedFor(reservation', reserved'), StillNoted(count', Stock!Moving(ms))
  PROVE  StockInv'
<1>1. Stock!LedgerTypeOK /\ Stock!BinsAddUp /\ MovesFit /\ MovesExplain /\ CountsFit
        /\ ReservationsFit
  BY DEF StockInv
<1>2. ReservedWithin(reserved', hand)
  <2>1. ReservedWithin(reserved, hand)
    BY <1>1, ReservedParts DEF StockInv
  <2> QED
    BY <1>1, <2>1, StockFacts DEF ReservedWithin, Stock!LedgerTypeOK
<1>3. PICK held : held = reserved'
  OBVIOUS
<1>4. /\ hand' \in [Balances -> 0..MaxHand]
      /\ positions' \in [Balances -> {None} \cup [Bins -> 0..MaxHand]]
      /\ ReservedWithin(held, hand') /\ Stock!BinsAddUp'
      /\ \A b \in Balances : b \notin Stock!Moving(ms) => hand'[b] = hand[b]
      /\ \A k \in DOMAIN ms : hand'[ms[k].balance] = hand[ms[k].balance] + ms[k].in - ms[k].out
  BY <1>1, <1>2, <1>3, HandMoved
<1>5. moves' = moves \o ms
  BY DEF Stock!Move
<1>6. moves' \in Seq(Stock!Movements) /\ MovesFit' /\ MovesExplain'
  BY <1>1, <1>4, <1>5, MovesMoved
<1>7. Stock!LedgerTypeOK'
  BY <1>4, <1>6 DEF Stock!LedgerTypeOK, StillNoted
<1>8. Stock!ReservedStockIsThere'
  BY <1>3, <1>4, <1>7, ReservedPartsAfter
<1>9. CountsFit'
  <2>1. SUFFICES ASSUME NEW c \in Counts, count'[c] # None, count'[c].unchanged
                 PROVE  hand'[count'[c].balance] = count'[c].expected
    BY DEF CountsFit
  <2>2. /\ count[c] # None /\ count[c].unchanged /\ count[c].balance \notin Stock!Moving(ms)
        /\ count'[c].balance = count[c].balance /\ count'[c].expected = count[c].expected
    BY <2>1 DEF StillNoted
  <2>3. count[c].balance \in Balances /\ hand[count[c].balance] = count[c].expected
    BY <1>1, <2>2 DEF CountsFit, Stock!LedgerTypeOK, Stock!CountRows
  <2> QED
    BY <1>4, <2>2, <2>3
<1> QED
  BY <1>4, <1>6, <1>7, <1>8, <1>9 DEF StockInv

(* The movements that commands make.                                        *)
LEMMA NoMove ==
  /\ FitMoves(<<>>) /\ Stock!Moving(<<>>) = {}
BY DEF FitMoves, Stock!Moving

LEMMA OneMove ==
  ASSUME NEW m \in Stock!Movements, m.in = 0 \/ m.out = 0, m.reverses = 0 \/ Undo(<<m>>)
  PROVE  FitMoves(<<m>>) /\ Stock!Moving(<<m>>) = {m.balance}
<1>1. /\ DOMAIN <<m>> = {1} /\ <<m>>[1] = m /\ Len(<<m>>) = 1
      /\ <<m>> \in Seq(Stock!Movements)
  OBVIOUS
<1> QED
  BY <1>1 DEF FitMoves, Stock!Moving

PlainRow(m, b) ==
  m \in Stock!Movements /\ (m.in = 0 \/ m.out = 0) /\ m.reverses = 0 /\ m.balance = b

LEMMA PlainRows ==
  ASSUME StockAssumption, NEW b \in Balances, NEW q \in 1..MaxHand,
         NEW source \in {"plain", "line", "transfer", "count"}
  PROVE  PlainRow(Stock!In(b, q, source), b) /\ PlainRow(Stock!Out(b, q, source), b)
<1>1. MaxHand \in Nat /\ MaxMoves \in Nat
  BY StockFacts
<1>2. PlainRow(Stock!In(b, q, source), b)
  BY <1>1 DEF PlainRow, Stock!In, Stock!Movements
<1>3. PlainRow(Stock!Out(b, q, source), b)
  BY <1>1 DEF PlainRow, Stock!Out, Stock!Movements
<1> QED
  BY <1>2, <1>3

LEMMA PlainMoves ==
  ASSUME NEW m, NEW b, PlainRow(m, b)
  PROVE  FitMoves(<<m>>) /\ Stock!Moving(<<m>>) = {b}
BY OneMove DEF PlainRow

LEMMA TwoMoves ==
  ASSUME StockAssumption, NEW b1 \in Balances, NEW b2 \in Balances, b1 # b2,
         NEW q \in 1..MaxHand, NEW ms, ms = <<Stock!Out(b1, q, "transfer"),
           Stock!In(b2, q, "transfer")>>
  PROVE  FitMoves(ms) /\ Stock!Moving(ms) = {b1, b2}
<1>1. PICK m, n : m = Stock!Out(b1, q, "transfer") /\ n = Stock!In(b2, q, "transfer")
  OBVIOUS
<1>2. /\ m \in Stock!Movements /\ (m.in = 0 \/ m.out = 0) /\ m.reverses = 0 /\ m.balance = b1
      /\ n \in Stock!Movements /\ (n.in = 0 \/ n.out = 0) /\ n.reverses = 0 /\ n.balance = b2
  BY <1>1, PlainRows DEF PlainRow
<1>3. /\ ms = <<m, n>> /\ DOMAIN ms = {1, 2} /\ ms[1] = m /\ ms[2] = n
      /\ ms \in Seq(Stock!Movements)
  BY <1>1, <1>2
<1>4. Stock!Moving(ms) = {b1, b2}
  <2>1. \A b \in Stock!Moving(ms) : b = b1 \/ b = b2
    BY <1>2, <1>3 DEF Stock!Moving
  <2>2. b1 \in Stock!Moving(ms) /\ b2 \in Stock!Moving(ms)
    BY <1>2, <1>3 DEF Stock!Moving
  <2> QED
    BY <2>1, <2>2
<1> QED
  BY <1>2, <1>3, <1>4 DEF FitMoves

LEMMA PlainStep ==
  ASSUME StockAssumption, StockInv, NEW ms, FitMoves(ms), Stock!Move(ms, reserved),
         UNCHANGED <<reserved, reservation>>, StillNoted(count', Stock!Moving(ms))
  PROVE  StockInv'
<1>1. reserved' = reserved /\ reservation' = reservation
  OBVIOUS
<1>2. Stock!LedgerTypeOK /\ ReservationsFit /\ Stock!ReservedStockIsThere
  BY DEF StockInv
<1>3. /\ reserved' \in [Balances -> 0..MaxHand]
      /\ reservation' \in [Reservations -> {None} \cup Stock!ReservationRows]
  BY <1>1, <1>2 DEF Stock!LedgerTypeOK
<1>4. ReservedWithin(reserved', reserved)
  BY <1>1, <1>2, StockFacts DEF ReservedWithin, Stock!LedgerTypeOK
<1>5. ReservationsFit'
  BY <1>1, <1>2 DEF ReservationsFit
<1>6. ReservedFor(reservation', reserved')
  BY <1>1, <1>2, ReservedParts
<1>7. Stock!Move(ms, reserved')
  BY <1>1
<1> QED
  BY <1>3, <1>4, <1>5, <1>6, <1>7, MoveStep

LEMMA PlainMoved ==
  ASSUME StockAssumption, StockInv, NEW b \in Balances, NEW q \in 1..MaxHand,
         NEW source \in {"plain", "line"}, Stock!PlainMove(b, q, source)
  PROVE  StockInv'
<1>1. PICK m : PlainRow(m, b) /\ Stock!Move(<<m>>, reserved)
  <2>1. PlainRow(Stock!In(b, q, source), b) /\ PlainRow(Stock!Out(b, q, source), b)
    BY PlainRows
  <2> QED
    BY <2>1 DEF Stock!PlainMove
<1>2. FitMoves(<<m>>) /\ Stock!Moving(<<m>>) = {b}
  BY <1>1, PlainMoves
<1>3. count' = Stock!Touched({b}) /\ UNCHANGED <<reserved, reservation>>
  BY DEF Stock!PlainMove
<1>4. StillNoted(count', Stock!Moving(<<m>>))
  BY <1>2, <1>3, TouchedNotes DEF StockInv
<1> QED
  BY <1>1, <1>2, <1>3, <1>4, PlainStep

LEMMA Transferred ==
  ASSUME StockAssumption, StockInv, NEW b1 \in Balances, NEW b2 \in Balances,
         NEW q \in 1..MaxHand, Stock!Transfer(b1, b2, q)
  PROVE  StockInv'
<1>1. PICK ms : ms = <<Stock!Out(b1, q, "transfer"), Stock!In(b2, q, "transfer")>>
  OBVIOUS
<1>2. /\ b1 # b2 /\ Stock!Move(ms, reserved) /\ count' = Stock!Touched({b1, b2})
      /\ UNCHANGED <<reserved, reservation>>
  BY <1>1 DEF Stock!Transfer
<1>3. FitMoves(ms) /\ Stock!Moving(ms) = {b1, b2}
  BY <1>1, <1>2, TwoMoves
<1>4. StillNoted(count', Stock!Moving(ms))
  BY <1>2, <1>3, TouchedNotes DEF StockInv
<1> QED
  BY <1>2, <1>3, <1>4, PlainStep

LEMMA Reversed ==
  ASSUME StockAssumption, StockInv, NEW k \in 1..MaxMoves, Stock!Reverse(k)
  PROVE  StockInv'
<1>1. /\ k \in DOMAIN moves /\ count' = Stock!Touched({moves[k].balance})
      /\ \A j \in DOMAIN moves : moves[j].reverses # k
      /\ UNCHANGED <<reserved, reservation>>
  BY DEF Stock!Reverse
<1>2. moves \in Seq(Stock!Movements) /\ (moves[k].in = 0 \/ moves[k].out = 0)
  BY <1>1 DEF StockInv, Stock!LedgerTypeOK, MovesFit
<1>3. PICK old \in Stock!Movements : old = moves[k]
  BY <1>1, <1>2
<1>4. PICK m : m = [old EXCEPT !.in = old.out, !.out = old.in, !.reverses = k]
  OBVIOUS
<1>5. /\ m \in Stock!Movements /\ m.balance = old.balance /\ m.in = old.out /\ m.out = old.in
      /\ m.reverses = k
  <2>1. MaxMoves \in Nat /\ k \in 0..MaxMoves
    BY StockFacts
  <2>2. old.in \in 0..MaxHand /\ old.out \in 0..MaxHand
    BY DEF Stock!Movements
  <2> QED
    BY <1>4, <2>1, <2>2 DEF Stock!Movements
<1>6. Stock!Move(<<m>>, reserved)
  BY <1>3, <1>4 DEF Stock!Reverse
<1>7. Len(<<m>>) = 1 /\ <<m>>[1] = m
  OBVIOUS
<1>8. Undo(<<m>>)
  BY <1>1, <1>3, <1>5, <1>7 DEF Undo
<1>9. FitMoves(<<m>>) /\ Stock!Moving(<<m>>) = {old.balance}
  BY <1>2, <1>3, <1>5, <1>8, OneMove
<1>10. StillNoted(count', Stock!Moving(<<m>>))
  BY <1>1, <1>3, <1>9, TouchedNotes DEF StockInv
<1> QED
  BY <1>1, <1>6, <1>9, <1>10, PlainStep

LEMMA DifferenceFits ==
  ASSUME StockAssumption, Stock!LedgerTypeOK, NEW c \in Counts, count[c] # None,
         count[c].counted # None
  PROVE  /\ FitMoves(Stock!Difference(c)) /\ count[c].balance \in Balances
         /\ count[c].expected \in Nat /\ count[c].counted \in Nat
         /\ \/ Stock!Difference(c) = <<>> /\ count[c].counted = count[c].expected
            \/ \E m : /\ Stock!Difference(c) = <<m>> /\ PlainRow(m, count[c].balance)
                      /\ m.in \in Nat /\ m.out \in Nat
                      /\ count[c].expected + m.in = count[c].counted + m.out
<1>1. count[c] \in Stock!CountRows
  BY DEF Stock!LedgerTypeOK
<1>2. PICK b \in Balances, e \in 0..MaxHand, n \in 0..MaxHand :
        b = count[c].balance /\ e = count[c].expected /\ n = count[c].counted
  BY <1>1 DEF Stock!CountRows
<1>3. MaxHand \in Nat /\ e \in Nat /\ n \in Nat
  BY StockFacts
<1>4. CASE n > e
  <2>1. PICK q \in 1..MaxHand : q = n - e
    BY <1>3, <1>4
  <2>2. Stock!Difference(c) = <<Stock!In(b, q, "count")>>
    BY <1>2, <1>4, <2>1 DEF Stock!Difference
  <2>3. PlainRow(Stock!In(b, q, "count"), b)
    BY PlainRows
  <2>4. Stock!In(b, q, "count").in = q /\ Stock!In(b, q, "count").out = 0
    BY DEF Stock!In
  <2>5. FitMoves(Stock!Difference(c))
    BY <2>2, <2>3, PlainMoves
  <2>6. e + q = n + 0 /\ q \in Nat
    BY <1>3, <2>1
  <2> QED
    BY <1>2, <1>3, <2>2, <2>3, <2>4, <2>5, <2>6
<1>5. CASE n < e
  <2>1. PICK q \in 1..MaxHand : q = e - n
    BY <1>3, <1>5
  <2>2. Stock!Difference(c) = <<Stock!Out(b, q, "count")>>
    BY <1>2, <1>3, <1>5, <2>1 DEF Stock!Difference
  <2>3. PlainRow(Stock!Out(b, q, "count"), b)
    BY PlainRows
  <2>4. Stock!Out(b, q, "count").in = 0 /\ Stock!Out(b, q, "count").out = q
    BY DEF Stock!Out
  <2>5. FitMoves(Stock!Difference(c))
    BY <2>2, <2>3, PlainMoves
  <2>6. e + 0 = n + q /\ q \in Nat
    BY <1>3, <2>1
  <2> QED
    BY <1>2, <1>3, <2>2, <2>3, <2>4, <2>5, <2>6
<1>6. CASE n = e
  <2>1. Stock!Difference(c) = <<>>
    BY <1>2, <1>3, <1>6 DEF Stock!Difference
  <2> QED
    BY <1>2, <1>3, <1>6, <2>1, NoMove
<1> QED
  BY <1>3, <1>4, <1>5, <1>6

LEMMA CountPosted ==
  ASSUME StockAssumption, StockInv, NEW c \in Counts, Stock!PostCount(c)
  PROVE  StockInv' /\ hand'[count[c].balance] = count[c].counted
         /\ \A d \in Counts \ {c} : count[d] # None => count'[d].status = count[d].status
<1>1. PICK ms, b, cs : ms = Stock!Difference(c) /\ b = count[c].balance
             /\ cs = Stock!Touched(Stock!Moving(ms))
  OBVIOUS
<1>2. /\ count[c] # None /\ count[c].counted # None /\ count[c].unchanged
      /\ Stock!Move(ms, reserved) /\ count' = [cs EXCEPT ![c].status = "posted"]
      /\ UNCHANGED <<reserved, reservation>>
  BY <1>1 DEF Stock!PostCount
<1>3. Stock!LedgerTypeOK /\ Stock!BinsAddUp /\ CountsFit
  BY DEF StockInv
<1>4. FitMoves(ms) /\ b \in Balances
  BY <1>1, <1>2, <1>3, DifferenceFits
<1>5. StillNoted(cs, Stock!Moving(ms)) /\ StatusesKept(cs)
  BY <1>1, <1>3, TouchedNotes
<1>6. cs[c] \in Stock!CountRows
  <2>1. cs[c] # None
    BY <1>1, <1>2, <1>3, StockFacts DEF Stock!Touched, Stock!LedgerTypeOK, Stock!CountRows
  <2> QED
    BY <1>5, <2>1 DEF StillNoted
<1>7. PICK old \in Stock!CountRows : old = cs[c]
  BY <1>6
<1>8. PICK new : new = [old EXCEPT !.status = "posted"]
  OBVIOUS
<1>9. /\ new \in Stock!CountRows /\ new.unchanged = old.unchanged /\ new.balance = old.balance
      /\ new.expected = old.expected
  BY <1>8 DEF Stock!CountRows
<1>10. /\ count' \in [Counts -> {None} \cup Stock!CountRows] /\ count'[c] = new
       /\ \A d \in Counts \ {c} : count'[d] = cs[d]
  BY <1>2, <1>5, <1>7, <1>8, <1>9 DEF StillNoted
<1>11. StillNoted(count', Stock!Moving(ms))
  BY <1>5, <1>6, <1>7, <1>9, <1>10, StockFacts DEF StillNoted
<1>12. StockInv'
  BY <1>2, <1>4, <1>11, PlainStep
<1>13. hand'[b] = count[c].counted
  <2>1. hand[b] = count[c].expected /\ hand[b] \in Nat
    BY <1>1, <1>2, <1>3, <1>4 DEF CountsFit, Stock!LedgerTypeOK
  <2>2. ReservedWithin(reserved, hand)
    BY <1>3, ReservedParts DEF StockInv
  <2>3. reserved \in [Balances -> 0..MaxHand]
    BY <1>3 DEF Stock!LedgerTypeOK
  <2>4. /\ \A d \in Balances : d \notin Stock!Moving(ms) => hand'[d] = hand[d]
        /\ \A k \in DOMAIN ms : hand'[ms[k].balance] = hand[ms[k].balance] + ms[k].in - ms[k].out
    BY <1>2, <1>3, <1>4, <2>2, <2>3, HandMoved
  <2>5. CASE ms = <<>> /\ count[c].counted = count[c].expected
    BY <1>4, <2>1, <2>4, <2>5, NoMove
  <2>6. CASE \E m : /\ ms = <<m>> /\ PlainRow(m, b)
                    /\ m.in \in Nat /\ m.out \in Nat
                    /\ count[c].expected + m.in = count[c].counted + m.out
    <3>1. PICK m : /\ ms = <<m>> /\ PlainRow(m, b)
                   /\ m.in \in Nat /\ m.out \in Nat
                   /\ count[c].expected + m.in = count[c].counted + m.out
      BY <2>6
    <3>2. 1 \in DOMAIN ms /\ ms[1] = m /\ m.balance = b
      BY <3>1 DEF PlainRow
    <3>3. hand'[b] = hand[b] + m.in - m.out
      BY <2>4, <3>2
    <3>4. count[c].counted \in Nat
      BY <1>2, <1>3, DifferenceFits
    <3> QED
      BY <2>1, <3>1, <3>3, <3>4
  <2> QED
    BY <1>1, <1>2, <1>3, <2>5, <2>6, DifferenceFits
<1> QED
  BY <1>1, <1>5, <1>10, <1>12, <1>13 DEF StatusesKept

LEMMA HoldsNatural ==
  ASSUME StockAssumption, NEW rows \in [Reservations -> {None} \cup Stock!ReservationRows],
         \A r \in Reservations : rows[r] # None => rows[r].consumed <= rows[r].quantity,
         NEW b
  PROVE  /\ \A r \in Reservations : Holds(rows, b)[r] \in Nat
         /\ Total(Holds(rows, b), Reservations) \in Nat
<1>1. \A r \in Reservations : Holds(rows, b)[r] \in Nat
  BY HoldsTyped, StockFacts
<1> QED
  BY <1>1, StockFacts, TotalNatural

LEMMA ReservedStep ==
  ASSUME StockAssumption, StockInv, UNCHANGED <<hand, positions, moves>>,
         reserved' \in [Balances -> 0..MaxHand], ReservedWithin(reserved', hand),
         reservation' \in [Reservations -> {None} \cup Stock!ReservationRows], ReservationsFit',
         ReservedFor(reservation', reserved'), NEW B, StillNoted(count', B)
  PROVE  StockInv'
<1>1. Stock!LedgerTypeOK' /\ Stock!BinsAddUp'
  BY DEF StockInv, Stock!LedgerTypeOK, Stock!BinsAddUp, StillNoted
<1>2. Stock!ReservedStockIsThere'
  <2>1. ReservedWithin(reserved', hand')
    OBVIOUS
  <2> QED
    BY <1>1, <2>1, ReservedPartsAfter
<1>3. MovesFit' /\ MovesExplain'
  BY DEF StockInv, MovesFit, MovesExplain, Undoes
<1>4. CountsFit'
  BY DEF StockInv, CountsFit, StillNoted
<1> QED
  BY <1>1, <1>2, <1>3, <1>4 DEF StockInv

(* One reservation is made or changed.                                      *)
LEMMA HoldsChange ==
  ASSUME StockAssumption, NEW old \in [Reservations -> {None} \cup Stock!ReservationRows],
         NEW new \in [Reservations -> {None} \cup Stock!ReservationRows],
         \A r \in Reservations : old[r] # None => old[r].consumed <= old[r].quantity,
         \A r \in Reservations : new[r] # None => new[r].consumed <= new[r].quantity,
         NEW r \in Reservations, \A s \in Reservations \ {r} : new[s] = old[s], NEW b
  PROVE  Total(Holds(new, b), Reservations) - Total(Holds(old, b), Reservations)
           = Holds(new, b)[r] - Holds(old, b)[r]
<1>1. PICK f, g : f = Holds(old, b) /\ g = Holds(new, b)
  OBVIOUS
<1>2. \A s \in Reservations : f[s] \in Nat /\ g[s] \in Nat
  BY <1>1, HoldsNatural
<1>3. \A s \in Reservations \ {r} : g[s] = f[s]
  BY <1>1 DEF Holds, OpenIn
<1>4. IsFiniteSet(Reservations)
  BY StockFacts
<1>5. Total(g, Reservations) - Total(f, Reservations) = g[r] - f[r]
  BY <1>2, <1>3, <1>4, TotalChange
<1> QED
  BY <1>1, <1>5

LEMMA ReservationMade ==
  ASSUME StockAssumption, StockInv, NEW r \in Reservations, NEW b \in Balances,
         NEW o \in Orders, NEW q \in 1..MaxHand, Stock!Reserve(r, b, o, q)
  PROVE  StockInv'
<1>1. Stock!LedgerTypeOK /\ ReservationsFit /\ Stock!ReservedStockIsThere
  BY DEF StockInv
<1>2. ReservedFor(reservation, reserved) /\ ReservedWithin(reserved, hand)
  BY <1>1, ReservedParts
<1>3. PICK old, new, row : /\ old = reservation /\ new = reservation'
                           /\ row = [balance |-> b, order |-> o, quantity |-> q, consumed |-> 0,
                                     status |-> "active"]
  OBVIOUS
<1>4. /\ old[r] = None /\ new = [old EXCEPT ![r] = row]
      /\ reserved' = [reserved EXCEPT ![b] = @ + q]
      /\ count' = Stock!Touched({b}) /\ UNCHANGED <<hand, positions, moves>>
      /\ hand[b] - reserved[b] >= q
  BY <1>3 DEF Stock!Reserve, Stock!Free
<1>5. /\ row \in Stock!ReservationRows /\ row # None /\ row.balance = b /\ row.status = "active"
      /\ row.quantity = q /\ row.consumed = 0 /\ q \in Nat
  <2>1. MaxHand \in Nat /\ 0 \in 0..MaxHand /\ q \in Nat
    BY StockFacts
  <2> QED
    BY <1>3, <2>1, StockFacts DEF Stock!ReservationRows
<1>6. old \in [Reservations -> {None} \cup Stock!ReservationRows]
  BY <1>1, <1>3 DEF Stock!LedgerTypeOK
<1>7. /\ new \in [Reservations -> {None} \cup Stock!ReservationRows] /\ new[r] = row
      /\ \A s \in Reservations \ {r} : new[s] = old[s]
  BY <1>4, <1>5, <1>6
<1>8. /\ \A s \in Reservations : old[s] # None => old[s].consumed <= old[s].quantity
      /\ \A s \in Reservations : new[s] # None => new[s].consumed <= new[s].quantity
  <2>1. \A s \in Reservations : old[s] # None => old[s].consumed <= old[s].quantity
    BY <1>1, <1>3 DEF ReservationsFit
  <2> QED
    BY <1>5, <1>7, <2>1
<1>9. ReservationsFit'
  BY <1>3, <1>8 DEF ReservationsFit
<1>10. ASSUME NEW d \in Balances
       PROVE  /\ reserved'[d] = Total(Holds(new, d), Reservations)
              /\ reserved'[d] \in 0..MaxHand /\ reserved'[d] <= hand[d]
  <2>1. Total(Holds(new, d), Reservations) - Total(Holds(old, d), Reservations)
          = Holds(new, d)[r] - Holds(old, d)[r]
    BY <1>6, <1>7, <1>8, HoldsChange
  <2>2. Holds(old, d)[r] = 0
    BY <1>4 DEF Holds, OpenIn
  <2>3. Holds(new, d)[r] = IF d = b THEN q ELSE 0
    BY <1>5, <1>7 DEF Holds, OpenIn
  <2>4. /\ Total(Holds(new, d), Reservations) \in Nat
        /\ Total(Holds(old, d), Reservations) \in Nat
    BY <1>6, <1>7, <1>8, HoldsNatural
  <2>5. reserved[d] = Total(Holds(old, d), Reservations) /\ reserved[d] <= hand[d]
    BY <1>2, <1>3 DEF ReservedFor, ReservedWithin
  <2>6. hand[d] \in 0..MaxHand /\ reserved[d] \in 0..MaxHand /\ MaxHand \in Nat
    BY <1>1, StockFacts DEF Stock!LedgerTypeOK
  <2>7. reserved'[d] = IF d = b THEN reserved[d] + q ELSE reserved[d]
    BY <1>1, <1>4 DEF Stock!LedgerTypeOK
  <2>8. Total(Holds(new, d), Reservations) = IF d = b THEN reserved[d] + q ELSE reserved[d]
    BY <1>5, <2>1, <2>2, <2>3, <2>4, <2>5
  <2> QED
    BY <1>4, <1>5, <2>5, <2>6, <2>7, <2>8
<1>11. reserved' \in [Balances -> 0..MaxHand]
  <2>1. reserved' = [d \in Balances |-> reserved'[d]]
    BY <1>1, <1>4 DEF Stock!LedgerTypeOK
  <2> QED
    BY <1>10, <2>1
<1>12. StillNoted(count', {b})
  BY <1>1, <1>4, TouchedNotes
<1>13. ReservedFor(reservation', reserved') /\ ReservedWithin(reserved', hand)
  BY <1>3, <1>10 DEF ReservedFor, ReservedWithin
<1>14. reservation' \in [Reservations -> {None} \cup Stock!ReservationRows]
  BY <1>3, <1>7
<1> QED
  BY <1>4, <1>9, <1>11, <1>12, <1>13, <1>14, ReservedStep

LEMMA ReservationReleased ==
  ASSUME StockAssumption, StockInv, NEW r \in Reservations, Stock!Release(r)
  PROVE  StockInv'
<1>1. Stock!LedgerTypeOK /\ ReservationsFit /\ Stock!ReservedStockIsThere
  BY DEF StockInv
<1>2. ReservedFor(reservation, reserved) /\ ReservedWithin(reserved, hand)
  BY <1>1, ReservedParts
<1>3. PICK old, new : old = reservation /\ new = reservation'
  OBVIOUS
<1>4. old[r] # None /\ old[r].status = "active"
        /\ old \in [Reservations -> {None} \cup Stock!ReservationRows]
  BY <1>1, <1>3 DEF Stock!Release, Stock!LedgerTypeOK
<1>5. PICK row \in Stock!ReservationRows : row = old[r]
  BY <1>4
<1>6. PICK over : over = [row EXCEPT !.status = "released"]
  OBVIOUS
<1>7. PICK b \in Balances : b = row.balance
  BY <1>5 DEF Stock!ReservationRows
<1>8. PICK q : q = row.quantity - row.consumed
  OBVIOUS
<1>9. /\ new = [old EXCEPT ![r] = over] /\ reserved' = [reserved EXCEPT ![b] = @ - q]
      /\ count' = Stock!Touched({b}) /\ UNCHANGED <<hand, positions, moves>>
  BY <1>3, <1>5, <1>6, <1>7, <1>8 DEF Stock!Release, Stock!Left
<1>10. /\ over \in Stock!ReservationRows /\ over.status = "released" /\ over.quantity = row.quantity
       /\ over.consumed = row.consumed
  BY <1>6 DEF Stock!ReservationRows
<1>11. /\ new \in [Reservations -> {None} \cup Stock!ReservationRows] /\ new[r] = over
       /\ \A s \in Reservations \ {r} : new[s] = old[s]
  BY <1>4, <1>9, <1>10
<1>12. /\ \A s \in Reservations : old[s] # None => old[s].consumed <= old[s].quantity
       /\ \A s \in Reservations : new[s] # None => new[s].consumed <= new[s].quantity
  <2>1. \A s \in Reservations : old[s] # None => old[s].consumed <= old[s].quantity
    BY <1>1, <1>3 DEF ReservationsFit
  <2> QED
    BY <1>4, <1>5, <1>10, <1>11, <2>1
<1>13. ReservationsFit'
  BY <1>3, <1>12 DEF ReservationsFit
<1>14. ASSUME NEW d \in Balances
       PROVE  /\ reserved'[d] = Total(Holds(new, d), Reservations)
              /\ reserved'[d] \in 0..MaxHand /\ reserved'[d] <= hand[d]
  <2>1. Total(Holds(new, d), Reservations) - Total(Holds(old, d), Reservations)
          = Holds(new, d)[r] - Holds(old, d)[r]
    BY <1>4, <1>11, <1>12, HoldsChange
  <2>2. Holds(old, d)[r] = IF d = b THEN q ELSE 0
    BY <1>4, <1>5, <1>7, <1>8 DEF Holds, OpenIn
  <2>3. Holds(new, d)[r] = 0
    BY <1>10, <1>11 DEF Holds, OpenIn
  <2>4. /\ Total(Holds(new, d), Reservations) \in Nat
        /\ Total(Holds(old, d), Reservations) \in Nat
    BY <1>4, <1>11, <1>12, HoldsNatural
  <2>5. reserved[d] = Total(Holds(old, d), Reservations) /\ reserved[d] <= hand[d]
    BY <1>2, <1>3 DEF ReservedFor, ReservedWithin
  <2>6. hand[d] \in 0..MaxHand /\ reserved[d] \in 0..MaxHand /\ MaxHand \in Nat
    BY <1>1, StockFacts DEF Stock!LedgerTypeOK
  <2>7. reserved'[d] = IF d = b THEN reserved[d] - q ELSE reserved[d]
    BY <1>1, <1>9 DEF Stock!LedgerTypeOK
  <2>8. q \in Nat
    BY <1>4, <1>5, <1>8, <1>12, StockFacts DEF Stock!ReservationRows
  <2>9. Total(Holds(new, d), Reservations) = IF d = b THEN reserved[d] - q ELSE reserved[d]
    BY <2>1, <2>2, <2>3, <2>4, <2>5, <2>8
  <2> QED
    BY <2>4, <2>5, <2>6, <2>7, <2>8, <2>9
<1>15. reserved' \in [Balances -> 0..MaxHand]
  <2>1. reserved' = [d \in Balances |-> reserved'[d]]
    BY <1>1, <1>9 DEF Stock!LedgerTypeOK
  <2> QED
    BY <1>14, <2>1
<1>16. StillNoted(count', {b})
  BY <1>1, <1>9, TouchedNotes
<1>17. ReservedFor(reservation', reserved') /\ ReservedWithin(reserved', hand)
  BY <1>3, <1>14 DEF ReservedFor, ReservedWithin
<1>18. reservation' \in [Reservations -> {None} \cup Stock!ReservationRows]
  BY <1>3, <1>11
<1> QED
  BY <1>9, <1>13, <1>15, <1>16, <1>17, <1>18, ReservedStep

(* What is taken from the open reservations of a balance.                   *)
Taken(old, mine, take) == [r \in Reservations |->
  IF r \notin mine \/ (r \in mine /\ take[r] = 0) THEN old[r]
  ELSE [old[r] EXCEPT
          !.consumed = @ + take[r],
          !.status = IF take[r] = old[r].quantity - old[r].consumed THEN "consumed" ELSE @]]

TakesFrom(old, new, b, mine, take) ==
  /\ new \in [Reservations -> {None} \cup Stock!ReservationRows]
  /\ \A r \in Reservations : new[r] # None => new[r].consumed <= new[r].quantity
  /\ \A d : d # b => Total(Holds(new, d), Reservations) = Total(Holds(old, d), Reservations)
  /\ Total(Holds(old, b), Reservations)
       = Total(Holds(new, b), Reservations) + Total(take, mine)
  /\ Total(take, mine) \in Nat

LEMMA HoldsTaken ==
  ASSUME StockAssumption, NEW old \in [Reservations -> {None} \cup Stock!ReservationRows],
         \A r \in Reservations : old[r] # None => old[r].consumed <= old[r].quantity,
         NEW b, NEW mine, mine \subseteq OpenIn(old, b), NEW take \in [mine -> 0..MaxHand],
         \A r \in mine : take[r] <= old[r].quantity - old[r].consumed,
         NEW new, new = Taken(old, mine, take)
  PROVE  TakesFrom(old, new, b, mine, take)
<1>1. /\ IsFiniteSet(Reservations) /\ MaxHand \in Nat /\ mine \subseteq Reservations
      /\ None \notin Stock!ReservationRows
  BY StockFacts DEF OpenIn
<1>2. ASSUME NEW r \in mine, take[r] # 0
      PROVE  /\ new[r] \in Stock!ReservationRows /\ new[r].consumed <= new[r].quantity
             /\ new[r].balance = b
             /\ IF new[r].status = "active"
                THEN new[r].quantity - new[r].consumed
                       = (old[r].quantity - old[r].consumed) - take[r]
                ELSE take[r] = old[r].quantity - old[r].consumed
  <2>1. old[r] \in Stock!ReservationRows /\ old[r].balance = b /\ old[r].status = "active"
    BY <1>1 DEF OpenIn
  <2>2. PICK row \in Stock!ReservationRows : row = old[r]
    BY <2>1
  <2>3. PICK n \in 0..MaxHand : n = take[r]
    OBVIOUS
  <2>4. /\ row.consumed \in 0..MaxHand /\ row.quantity \in 1..MaxHand
        /\ n <= row.quantity - row.consumed /\ row.consumed <= row.quantity
    BY <1>1, <2>1, <2>2, <2>3 DEF Stock!ReservationRows
  <2>5. PICK st : st = IF n = row.quantity - row.consumed THEN "consumed" ELSE row.status
    OBVIOUS
  <2>6. PICK sum : sum = row.consumed + n
    OBVIOUS
  <2>7. sum \in 0..MaxHand /\ sum <= row.quantity
    <3>1. PICK x \in Nat, y \in Nat : x = row.consumed /\ y = row.quantity /\ y <= MaxHand
      BY <1>1, <2>4
    <3>2. n \in Nat /\ n <= y - x
      BY <1>1, <2>4, <3>1
    <3>3. x + n \in Nat /\ x + n <= y /\ x + n <= MaxHand
      BY <1>1, <3>1, <3>2
    <3> QED
      BY <1>1, <2>6, <3>1, <3>3
  <2>8. PICK after : after = [row EXCEPT !.consumed = sum, !.status = st]
    OBVIOUS
  <2>9. new[r] = after
    BY <1>1, <1>2, <2>2, <2>3, <2>5, <2>6, <2>8 DEF Taken
  <2>10. st \in {"active", "consumed"}
    BY <2>1, <2>2, <2>5
  <2>11. /\ after \in Stock!ReservationRows /\ after.consumed = sum /\ after.status = st
         /\ after.quantity = row.quantity /\ after.balance = row.balance
    BY <2>7, <2>8, <2>10 DEF Stock!ReservationRows
  <2>12. IF st = "active" THEN row.quantity - sum = (row.quantity - row.consumed) - n
         ELSE n = row.quantity - row.consumed
    <3>1. PICK x \in Nat, y \in Nat : x = row.consumed /\ y = row.quantity
      BY <1>1, <2>4
    <3>2. n \in Nat /\ y - (x + n) = (y - x) - n
      BY <1>1, <3>1
    <3> QED
      BY <2>1, <2>2, <2>5, <2>6, <3>1, <3>2
  <2> QED
    BY <2>1, <2>2, <2>3, <2>7, <2>9, <2>11, <2>12
<1>3. \A r \in Reservations : ~(r \in mine /\ take[r] # 0) => new[r] = old[r]
  BY DEF Taken
<1>4. new \in [Reservations -> {None} \cup Stock!ReservationRows]
  <2>1. \A r \in Reservations : new[r] \in {None} \cup Stock!ReservationRows
    BY <1>2, <1>3
  <2>2. new = [r \in Reservations |-> new[r]]
    BY DEF Taken
  <2> QED
    BY <2>1, <2>2
<1>5. \A r \in Reservations : new[r] # None => new[r].consumed <= new[r].quantity
  BY <1>2, <1>3
<1>6. ASSUME NEW d, d # b
      PROVE  Total(Holds(new, d), Reservations) = Total(Holds(old, d), Reservations)
  <2>1. ASSUME NEW r \in Reservations
        PROVE  Holds(new, d)[r] = Holds(old, d)[r]
    <3>1. CASE r \in mine /\ take[r] # 0
      <4>1. new[r].balance = b /\ old[r].balance = b
        BY <1>2, <3>1 DEF OpenIn
      <4> QED
        BY <1>6, <4>1 DEF Holds, OpenIn
    <3>2. CASE ~(r \in mine /\ take[r] # 0)
      BY <1>3, <3>2 DEF Holds, OpenIn
    <3> QED
      BY <3>1, <3>2
  <2> QED
    BY <2>1, TotalCongruence
<1>7. PICK took : took = [r \in Reservations |-> IF r \in mine THEN take[r] ELSE 0]
  OBVIOUS
<1>8. ASSUME NEW r \in Reservations
      PROVE  /\ Holds(new, b)[r] \in Nat /\ took[r] \in Nat
             /\ Holds(old, b)[r] = Holds(new, b)[r] + took[r]
  <2>1. Holds(new, b)[r] \in Nat /\ Holds(old, b)[r] \in Nat /\ took[r] \in Nat
    BY <1>1, <1>4, <1>5, <1>7, HoldsNatural
  <2>2. CASE r \in mine /\ take[r] # 0
    <3>1. took[r] = take[r] /\ Holds(old, b)[r] = old[r].quantity - old[r].consumed
      BY <1>7, <2>2 DEF Holds
    <3>2. new[r] # None /\ new[r].balance = b
      BY <1>1, <1>2, <2>2
    <3>3. CASE new[r].status = "active"
      <4>1. Holds(new, b)[r] = new[r].quantity - new[r].consumed
        BY <3>2, <3>3 DEF Holds, OpenIn
      <4>2. Holds(new, b)[r] = Holds(old, b)[r] - took[r]
        BY <1>2, <2>2, <3>1, <3>3, <4>1
      <4> QED
        BY <2>1, <4>2
    <3>4. CASE new[r].status # "active"
      <4>1. Holds(new, b)[r] = 0
        BY <3>4 DEF Holds, OpenIn
      <4>2. took[r] = Holds(old, b)[r]
        BY <1>2, <2>2, <3>1, <3>4
      <4> QED
        BY <2>1, <4>1, <4>2
    <3> QED
      BY <3>3, <3>4
  <2>3. CASE ~(r \in mine /\ take[r] # 0)
    <3>1. Holds(new, b)[r] = Holds(old, b)[r]
      BY <1>3, <2>3 DEF Holds, OpenIn
    <3>2. took[r] = 0
      BY <1>7, <2>3
    <3> QED
      BY <2>1, <3>1, <3>2
  <2> QED
    BY <2>2, <2>3
<1>9. Total(Holds(old, b), Reservations)
        = Total(Holds(new, b), Reservations) + Total(took, Reservations)
  <2>1. PICK f, g : f = Holds(old, b) /\ g = Holds(new, b)
    OBVIOUS
  <2>2. \A r \in Reservations : g[r] \in Nat /\ took[r] \in Nat /\ f[r] = g[r] + took[r]
    BY <1>8, <2>1
  <2>3. Total(f, Reservations) = Total(g, Reservations) + Total(took, Reservations)
    BY <1>1, <2>2, TotalPlus
  <2> QED
    BY <2>1, <2>3
<1>10. Total(took, Reservations) = Total(take, mine) /\ Total(take, mine) \in Nat
  <2>1. PICK rest : rest = Reservations \ mine
    OBVIOUS
  <2>2. /\ mine \cup rest = Reservations /\ mine \cap rest = {}
        /\ IsFiniteSet(mine) /\ IsFiniteSet(rest)
    BY <1>1, <2>1, FS_Subset
  <2>3. \A r \in mine \cup rest : took[r] \in 0..MaxHand
    BY <1>1, <1>7, <2>2
  <2>4. Total(took, mine \cup rest) = Total(took, mine) + Total(took, rest)
    BY <1>1, <2>2, <2>3, TotalUnion
  <2>5. \A r \in rest : took[r] = 0
    BY <1>7, <2>1
  <2>6. Total(took, rest) = 0
    BY <2>5, TotalZero
  <2>7. \A r \in mine : took[r] = take[r]
    BY <1>1, <1>7
  <2>8. Total(took, mine) = Total(take, mine)
    BY <2>7, TotalCongruence
  <2>9. Total(take, mine) \in Nat
    BY <1>1, <2>2, TotalType
  <2> QED
    <3>1. Total(took, Reservations) = Total(took, mine) + Total(took, rest)
      BY <2>2, <2>4
    <3> QED
      BY <2>6, <2>8, <2>9, <3>1
<1> QED
  BY <1>4, <1>5, <1>6, <1>9, <1>10 DEF TakesFrom

LEMMA Dispatched ==
  ASSUME StockAssumption, StockInv, NEW b \in Balances, NEW o \in Orders, NEW q \in 1..MaxHand,
         Stock!Dispatch(b, o, q)
  PROVE  StockInv'
<1>1. Stock!LedgerTypeOK /\ ReservationsFit /\ Stock!ReservedStockIsThere
  BY DEF StockInv
<1>2. ReservedFor(reservation, reserved) /\ ReservedWithin(reserved, hand)
  BY <1>1, ReservedParts
<1>3. PICK take \in Stock!Consumption(b, o, q) :
        /\ Stock!Move(<<Stock!Out(b, q, "line")>>,
           [reserved EXCEPT ![b] = @ - Stock!Total(take, DOMAIN take)])
        /\ reserved' = [reserved EXCEPT ![b] = @ - Stock!Total(take, DOMAIN take)]
        /\ count' = Stock!Touched({b})
        /\ reservation' = [r \in Reservations |->
             IF r \notin DOMAIN take \/ (r \in DOMAIN take /\ take[r] = 0) THEN reservation[r]
             ELSE [reservation[r] EXCEPT
                     !.consumed = @ + take[r],
                     !.status = IF take[r] = Stock!Left(r) THEN "consumed" ELSE @]]
  BY DEF Stock!Dispatch
<1>4. PICK mine : mine = {r \in Stock!Open(b) : reservation[r].order = o}
  OBVIOUS
<1>5. /\ take \in [mine -> 0..MaxHand] /\ DOMAIN take = mine
      /\ \A r \in mine : take[r] <= Stock!Left(r)
  BY <1>3, <1>4 DEF Stock!Consumption
<1>6. PICK old, new : old = reservation /\ new = reservation'
  OBVIOUS
<1>7. /\ old \in [Reservations -> {None} \cup Stock!ReservationRows]
      /\ \A r \in Reservations : old[r] # None => old[r].consumed <= old[r].quantity
      /\ mine \subseteq OpenIn(old, b)
      /\ \A r \in mine : take[r] <= old[r].quantity - old[r].consumed
  BY <1>1, <1>4, <1>5, <1>6 DEF Stock!LedgerTypeOK, ReservationsFit, Stock!Open, OpenIn, Stock!Left
<1>8. new = Taken(old, mine, take)
  BY <1>3, <1>5, <1>6 DEF Stock!Left, Taken
<1>9. /\ new \in [Reservations -> {None} \cup Stock!ReservationRows]
      /\ \A r \in Reservations : new[r] # None => new[r].consumed <= new[r].quantity
      /\ \A d : d # b => Total(Holds(new, d), Reservations) = Total(Holds(old, d), Reservations)
      /\ Total(Holds(old, b), Reservations)
           = Total(Holds(new, b), Reservations) + Total(take, mine)
      /\ Total(take, mine) \in Nat
  <2>1. TakesFrom(old, new, b, mine, take)
    BY <1>5, <1>7, <1>8, HoldsTaken
  <2> QED
    BY <2>1 DEF TakesFrom
<1>10. PICK used \in Nat : used = Total(take, mine)
  BY <1>9
<1>11. reserved' = [reserved EXCEPT ![b] = @ - used]
         /\ Stock!Move(<<Stock!Out(b, q, "line")>>, reserved')
  BY <1>3, <1>5, <1>10, StockTotals
<1>12. ASSUME NEW d \in Balances
       PROVE  /\ reserved'[d] = Total(Holds(new, d), Reservations)
              /\ reserved'[d] \in 0..MaxHand /\ reserved'[d] <= reserved[d]
  <2>1. reserved[d] = Total(Holds(old, d), Reservations)
    BY <1>2, <1>6 DEF ReservedFor
  <2>2. Total(Holds(new, d), Reservations) \in Nat
    BY <1>9, HoldsNatural
  <2>3. reserved[d] \in 0..MaxHand /\ MaxHand \in Nat
    BY <1>1, StockFacts DEF Stock!LedgerTypeOK
  <2>4. reserved'[d] = IF d = b THEN reserved[d] - used ELSE reserved[d]
    BY <1>1, <1>11 DEF Stock!LedgerTypeOK
  <2>5. CASE d = b
    <3>1. reserved[d] = Total(Holds(new, d), Reservations) + used
      BY <1>9, <1>10, <2>1, <2>5
    <3> QED
      BY <1>10, <2>2, <2>3, <2>4, <2>5, <3>1
  <2>6. CASE d # b
    BY <1>9, <2>1, <2>3, <2>4, <2>6
  <2> QED
    BY <2>5, <2>6
<1>13. reserved' \in [Balances -> 0..MaxHand]
  <2>1. reserved' = [d \in Balances |-> reserved'[d]]
    BY <1>1, <1>11 DEF Stock!LedgerTypeOK
  <2> QED
    BY <1>12, <2>1
<1>14. PICK m : m = Stock!Out(b, q, "line")
  OBVIOUS
<1>15. PlainRow(m, b)
  BY <1>14, PlainRows
<1>16. FitMoves(<<m>>) /\ Stock!Moving(<<m>>) = {b}
  BY <1>15, PlainMoves
<1>17. StillNoted(count', Stock!Moving(<<m>>))
  BY <1>1, <1>3, <1>16, TouchedNotes
<1>18. ReservedFor(reservation', reserved') /\ ReservedWithin(reserved', reserved)
  BY <1>6, <1>12 DEF ReservedFor, ReservedWithin
<1>19. ReservationsFit' /\ reservation' \in [Reservations -> {None} \cup Stock!ReservationRows]
  BY <1>6, <1>9 DEF ReservationsFit
<1>20. Stock!Move(<<m>>, reserved')
  BY <1>11, <1>14
<1> QED
  BY <1>13, <1>16, <1>17, <1>18, <1>19, <1>20, MoveStep

LEMMA Relocated ==
  ASSUME StockAssumption, StockInv, NEW b \in Balances, NEW n1 \in Bins, NEW n2 \in Bins,
         NEW q \in 1..MaxHand, Stock!Relocate(b, n1, n2, q)
  PROVE  StockInv'
<1>1. Stock!LedgerTypeOK /\ Stock!BinsAddUp
  BY DEF StockInv
<1>2. /\ positions[b] # None /\ n1 # n2 /\ q <= positions[b][n1]
      /\ positions' = [positions EXCEPT ![b][n1] = @ - q, ![b][n2] = @ + q]
      /\ UNCHANGED <<hand, reserved, moves, reservation, count>>
  BY DEF Stock!Relocate
<1>3. PICK p \in [Bins -> 0..MaxHand] : p = positions[b]
  BY <1>1, <1>2 DEF Stock!LedgerTypeOK
<1>4. PICK p1, p2 : p1 = [p EXCEPT ![n1] = @ - q] /\ p2 = [p1 EXCEPT ![n2] = @ + q]
  OBVIOUS
<1>5. positions' = [positions EXCEPT ![b] = p2]
  BY <1>1, <1>2, <1>3, <1>4 DEF Stock!LedgerTypeOK
<1>6. IsFiniteSet(Bins) /\ MaxHand \in Nat /\ q \in Nat
  BY StockFacts
<1>7. Total(p, Bins) = hand[b] /\ hand[b] \in 0..MaxHand
  BY <1>1, <1>2, <1>3, StockTotals DEF Stock!BinsAddUp, Stock!LedgerTypeOK
<1>8. p[n1] + p[n2] <= MaxHand
  <2>1. PICK S : S = Bins \ {n1}
    OBVIOUS
  <2>2. IsFiniteSet(S) /\ n2 \in S /\ IsFiniteSet(S \ {n2})
    BY <1>2, <1>6, <2>1, FS_Subset
  <2>3. (\A n \in Bins : p[n] \in 0..MaxHand) /\ \A n \in S : p[n] \in 0..MaxHand
    BY <2>1
  <2>4. Total(p, Bins) = Total(p, S) + p[n1]
    BY <1>6, <2>1, <2>3, TotalRemove
  <2>5. Total(p, S) = Total(p, S \ {n2}) + p[n2]
    BY <1>6, <2>2, <2>3, TotalRemove
  <2>6. \A n \in S \ {n2} : p[n] \in 0..MaxHand
    BY <2>3
  <2>7. Total(p, S \ {n2}) \in Nat
    BY <1>6, <2>2, <2>6, TotalType
  <2>8. p[n1] \in Nat /\ p[n2] \in Nat
    BY <1>6
  <2> QED
    BY <1>6, <1>7, <2>4, <2>5, <2>7, <2>8
<1>9. /\ \A n \in Bins : p[n] \in Nat /\ p1[n] \in Nat
      /\ \A n \in Bins \ {n1} : p1[n] = p[n]
      /\ p1[n1] = p[n1] - q /\ p1 \in [Bins -> 0..MaxHand]
  BY <1>2, <1>3, <1>4, <1>6
<1>10. /\ \A n \in Bins : p1[n] \in Nat /\ p2[n] \in Nat
       /\ \A n \in Bins \ {n2} : p2[n] = p1[n]
       /\ p2[n2] = p1[n2] + q /\ p2 \in [Bins -> 0..MaxHand]
  <2>1. p1[n2] + q \in 0..MaxHand
    BY <1>2, <1>3, <1>6, <1>8, <1>9
  <2> QED
    BY <1>4, <1>6, <1>9, <2>1
<1>11. Total(p1, Bins) - Total(p, Bins) = p1[n1] - p[n1]
  <2>1. \A n \in Bins : p[n] \in Nat /\ p1[n] \in Nat
    BY <1>9
  <2>2. \A n \in Bins \ {n1} : p1[n] = p[n]
    BY <1>9
  <2> QED
    BY <1>6, <2>1, <2>2, TotalChange
<1>12. Total(p2, Bins) - Total(p1, Bins) = p2[n2] - p1[n2]
  <2>1. \A n \in Bins : p1[n] \in Nat /\ p2[n] \in Nat
    BY <1>10
  <2>2. \A n \in Bins \ {n2} : p2[n] = p1[n]
    BY <1>10
  <2> QED
    BY <1>6, <2>1, <2>2, TotalChange
<1>13. Total(p2, Bins) = hand[b]
  <2>1. Total(p, Bins) \in Nat /\ Total(p1, Bins) \in Nat /\ Total(p2, Bins) \in Nat
    <3>1. Total(p1, Bins) \in Nat
      <4>1. \A n \in Bins : p1[n] \in 0..MaxHand
        BY <1>9
      <4> QED
        BY <1>6, <4>1, TotalType
    <3>2. Total(p2, Bins) \in Nat
      <4>1. \A n \in Bins : p2[n] \in 0..MaxHand
        BY <1>10
      <4> QED
        BY <1>6, <4>1, TotalType
    <3> QED
      BY <1>6, <1>7, <3>1, <3>2
  <2>2. p[n1] \in Nat /\ p1[n1] \in Nat /\ p1[n2] \in Nat /\ p2[n2] \in Nat
    BY <1>9, <1>10
  <2>3. p1[n1] = p[n1] - q /\ p2[n2] = p1[n2] + q
    BY <1>9, <1>10
  <2>4. PICK t, t1, t2 : /\ t = Total(p, Bins) /\ t1 = Total(p1, Bins) /\ t2 = Total(p2, Bins)
    OBVIOUS
  <2>5. PICK x, x1, y1, y2 : x = p[n1] /\ x1 = p1[n1] /\ y1 = p1[n2] /\ y2 = p2[n2]
    OBVIOUS
  <2>6. /\ t \in Nat /\ t1 \in Nat /\ t2 \in Nat
        /\ x \in Nat /\ x1 \in Nat /\ y1 \in Nat /\ y2 \in Nat
        /\ x1 = x - q /\ y2 = y1 + q
    BY <2>1, <2>2, <2>3, <2>4, <2>5
  <2>7. t1 - t = x1 - x /\ t2 - t1 = y2 - y1
    BY <1>11, <1>12, <2>4, <2>5
  <2>8. t2 = t
    BY <1>6, <2>6, <2>7
  <2> QED
    BY <1>7, <2>4, <2>8
<1>14. /\ positions' \in [Balances -> {None} \cup [Bins -> 0..MaxHand]] /\ positions'[b] = p2
       /\ \A d \in Balances \ {b} : positions'[d] = positions[d]
  BY <1>1, <1>5, <1>10 DEF Stock!LedgerTypeOK
<1>15. Stock!LedgerTypeOK'
  BY <1>1, <1>2, <1>14 DEF Stock!LedgerTypeOK
<1>16. Stock!BinsAddUp'
  BY <1>1, <1>2, <1>13, <1>14, StockTotals DEF Stock!BinsAddUp
<1>17. Stock!ReservedStockIsThere' /\ MovesFit' /\ MovesExplain' /\ ReservationsFit' /\ CountsFit'
  <2>1. Stock!ReservedStockIsThere'
    BY <1>2 DEF StockInv, Stock!ReservedStockIsThere, Stock!Open, Stock!Left
  <2>2. MovesFit'
    BY <1>2 DEF StockInv, MovesFit, Undoes
  <2>3. MovesExplain'
    BY <1>2 DEF StockInv, MovesExplain
  <2>4. ReservationsFit' /\ CountsFit'
    BY <1>2 DEF StockInv, ReservationsFit, CountsFit
  <2> QED
    BY <2>1, <2>2, <2>3, <2>4
<1> QED
  BY <1>15, <1>16, <1>17 DEF StockInv

LEMMA CountStep ==
  ASSUME StockAssumption, StockInv, UNCHANGED <<hand, reserved, positions, moves, reservation>>,
         count' \in [Counts -> {None} \cup Stock!CountRows], CountsFit'
  PROVE  StockInv'
<1>1. Stock!ReservedStockIsThere'
  BY DEF StockInv, Stock!ReservedStockIsThere, Stock!Open, Stock!Left
<1>2. MovesFit'
  BY DEF StockInv, MovesFit, Undoes
<1>3. MovesExplain'
  BY DEF StockInv, MovesExplain
<1>4. ReservationsFit' /\ Stock!LedgerTypeOK'
  BY DEF StockInv, ReservationsFit, Stock!LedgerTypeOK
<1>5. Stock!BinsAddUp'
  BY DEF StockInv, Stock!BinsAddUp
<1> QED
  BY <1>1, <1>2, <1>3, <1>4, <1>5 DEF StockInv

LEMMA CountOpened ==
  ASSUME StockAssumption, StockInv, NEW c \in Counts, NEW b \in Balances, Stock!OpenCount(c, b)
  PROVE  StockInv' /\ \A d \in Counts : count[d] # None => count'[d] = count[d]
<1>1. PICK row : row = [status |-> "draft", balance |-> b, expected |-> hand[b],
                        counted |-> None, unchanged |-> TRUE]
  OBVIOUS
<1>2. /\ count[c] = None /\ count' = [count EXCEPT ![c] = row]
      /\ UNCHANGED <<hand, reserved, positions, moves, reservation>>
  BY <1>1 DEF Stock!OpenCount
<1>3. row \in Stock!CountRows /\ row.balance = b /\ row.expected = hand[b]
  BY <1>1 DEF Stock!CountRows, StockInv, Stock!LedgerTypeOK
<1>4. /\ count' \in [Counts -> {None} \cup Stock!CountRows] /\ count'[c] = row
      /\ \A d \in Counts \ {c} : count'[d] = count[d]
  BY <1>2, <1>3 DEF StockInv, Stock!LedgerTypeOK
<1>5. CountsFit'
  BY <1>2, <1>3, <1>4 DEF StockInv, CountsFit
<1> QED
  BY <1>2, <1>4, <1>5, CountStep

LEMMA CountEntered ==
  ASSUME StockAssumption, StockInv, NEW c \in Counts, NEW n \in 0..MaxHand, Stock!EnterCount(c, n)
  PROVE  StockInv' /\ \A d \in Counts : count[d] # None => count'[d].status = count[d].status
<1>1. /\ count[c] # None /\ count' = [count EXCEPT ![c].counted = n]
      /\ UNCHANGED <<hand, reserved, positions, moves, reservation>>
  BY DEF Stock!EnterCount
<1>2. PICK old \in Stock!CountRows : old = count[c]
  BY <1>1 DEF StockInv, Stock!LedgerTypeOK
<1>3. PICK row : row = [old EXCEPT !.counted = n]
  OBVIOUS
<1>4. /\ row \in Stock!CountRows /\ row.balance = old.balance /\ row.expected = old.expected
      /\ row.unchanged = old.unchanged /\ row.status = old.status
  BY <1>3 DEF Stock!CountRows
<1>5. count' = [count EXCEPT ![c] = row]
  BY <1>1, <1>2, <1>3
<1>6. /\ count' \in [Counts -> {None} \cup Stock!CountRows] /\ count'[c] = row
      /\ \A d \in Counts \ {c} : count'[d] = count[d]
  BY <1>4, <1>5 DEF StockInv, Stock!LedgerTypeOK
<1>7. CountsFit'
  BY <1>1, <1>2, <1>4, <1>6 DEF StockInv, CountsFit
<1> QED
  BY <1>1, <1>2, <1>4, <1>6, <1>7, CountStep

LEMMA StockInvInit ==
  ASSUME StockAssumption, Stock!LedgerInit
  PROVE  StockInv
<1>1. Stock!LedgerTypeOK
  <2>1. <<>> \in Seq(Stock!Movements)
    OBVIOUS
  <2> QED
    BY <2>1, StockFacts DEF Stock!LedgerInit, Stock!LedgerTypeOK
<1>2. ReservationsFit /\ CountsFit /\ MovesFit
  BY DEF Stock!LedgerInit, ReservationsFit, CountsFit, MovesFit
<1>3. Stock!ReservedStockIsThere
  <2>1. ASSUME NEW b \in Balances
        PROVE  /\ reserved[b] = Total(Holds(reservation, b), Reservations)
               /\ reserved[b] <= hand[b]
    <3>1. \A r \in Reservations : Holds(reservation, b)[r] = 0
      BY DEF Stock!LedgerInit, Holds, OpenIn
    <3>2. Total(Holds(reservation, b), Reservations) = 0
      BY <3>1, TotalZero
    <3> QED
      BY <3>2, StockFacts DEF Stock!LedgerInit
  <2> QED
    BY <1>1, <1>2, <2>1, ReservedParts DEF ReservedFor, ReservedWithin
<1>4. Stock!BinsAddUp
  BY DEF Stock!LedgerInit, Stock!BinsAddUp
<1>5. MovesExplain
  <2>1. ASSUME NEW b \in Balances
        PROVE  Opening + Came(moves, b) = hand[b] + Went(moves, b)
    <3>1. Of(moves, b) = {}
      BY DEF Stock!LedgerInit, Of
    <3>2. Came(moves, b) = 0 /\ Went(moves, b) = 0
      BY <3>1, TotalEmpty DEF Came, Went
    <3> QED
      BY <3>2 DEF Stock!LedgerInit
  <2> QED
    BY <2>1, MovesExplained DEF ExplainedBy
<1> QED
  BY <1>1, <1>2, <1>3, <1>4, <1>5 DEF StockInv

LEMMA StockInvStep ==
  ASSUME StockAssumption, StockInv, [Stock!LedgerNext]_Stock!ledgerVars
  PROVE  StockInv'
<1>1. CASE UNCHANGED Stock!ledgerVars
  <2>1. UNCHANGED <<hand, reserved, positions, moves, reservation, count>>
    BY <1>1 DEF Stock!ledgerVars
  <2>2. count' \in [Counts -> {None} \cup Stock!CountRows] /\ CountsFit'
    BY <2>1 DEF StockInv, Stock!LedgerTypeOK, CountsFit
  <2> QED
    BY <2>1, <2>2, CountStep
<1>2. CASE Stock!LedgerNext
  <2>1. CASE \E b \in Balances, q \in 1..MaxHand, source \in {"plain", "line"} :
               Stock!PlainMove(b, q, source)
    BY <2>1, PlainMoved
  <2>2. CASE \E b1, b2 \in Balances, q \in 1..MaxHand : Stock!Transfer(b1, b2, q)
    <3>1. PICK b1, b2 \in Balances, q \in 1..MaxHand : Stock!Transfer(b1, b2, q)
      BY <2>2
    <3>2. b1 # b2
      BY <3>1 DEF Stock!Transfer
    <3> QED
      BY <3>1, <3>2, Transferred
  <2>3. CASE \E k \in 1..MaxMoves : Stock!Reverse(k)
    BY <2>3, Reversed
  <2>4. CASE \E r \in Reservations : Stock!Release(r)
    BY <2>4, ReservationReleased
  <2>5. CASE \E r \in Reservations, b \in Balances, o \in Orders, q \in 1..MaxHand :
               Stock!Reserve(r, b, o, q)
    BY <2>5, ReservationMade
  <2>6. CASE \E b \in Balances, q \in 1..MaxHand, o \in Orders : Stock!Dispatch(b, o, q)
    BY <2>6, Dispatched
  <2>7. CASE \E b \in Balances, q \in 1..MaxHand, n1, n2 \in Bins : Stock!Relocate(b, n1, n2, q)
    BY <2>7, Relocated
  <2>8. CASE \E c \in Counts : Stock!PostCount(c)
    BY <2>8, CountPosted
  <2>9. CASE \E c \in Counts, n \in 0..MaxHand : Stock!EnterCount(c, n)
    BY <2>9, CountEntered
  <2>10. CASE \E c \in Counts, b \in Balances : Stock!OpenCount(c, b)
    BY <2>10, CountOpened
  <2> QED
    BY <1>2, <2>1, <2>2, <2>3, <2>4, <2>5, <2>6, <2>7, <2>8, <2>9, <2>10 DEF Stock!LedgerNext
<1> QED
  BY <1>1, <1>2

(* No other command posts a count.                                          *)
LEMMA NothingPosted ==
  ASSUME NEW c \in Counts, count[c] # None, count[c].status = "draft",
         \A d \in Counts : count[d] # None => count'[d].status = count[d].status
  PROVE  count'[c].status # "posted"
OBVIOUS

LEMMA CountsPost ==
  ASSUME StockAssumption, StockInv, [Stock!LedgerNext]_Stock!ledgerVars
  PROVE  Stock!CountSetsStock
<1> DEFINE SameStatus == \A d \in Counts : count[d] # None => count'[d].status = count[d].status
<1>1. Stock!LedgerTypeOK
  BY DEF StockInv
<1>2. ASSUME NEW B, count' = Stock!Touched(B)
      PROVE  SameStatus
  BY <1>1, <1>2, TouchedNotes DEF StatusesKept
<1>3. CASE count' = count
  BY <1>3 DEF Stock!CountSetsStock
<1>4. CASE \E B : count' = Stock!Touched(B)
  BY <1>2, <1>4, NothingPosted DEF Stock!CountSetsStock
<1>5. CASE \E c \in Counts : Stock!PostCount(c)
  <2>1. PICK c \in Counts : Stock!PostCount(c)
    BY <1>5
  <2>2. /\ hand'[count[c].balance] = count[c].counted
        /\ \A d \in Counts \ {c} : count[d] # None => count'[d].status = count[d].status
    BY <2>1, CountPosted
  <2> QED
    BY <2>2 DEF Stock!CountSetsStock
<1>6. CASE \E c \in Counts, n \in 0..MaxHand : Stock!EnterCount(c, n)
  <2>1. SameStatus
    BY <1>6, CountEntered
  <2> QED
    BY <2>1, NothingPosted DEF Stock!CountSetsStock
<1>7. CASE \E c \in Counts, b \in Balances : Stock!OpenCount(c, b)
  <2>1. \A d \in Counts : count[d] # None => count'[d] = count[d]
    BY <1>7, CountOpened
  <2>2. SameStatus
    BY <2>1
  <2> QED
    BY <2>2, NothingPosted DEF Stock!CountSetsStock
<1>8. CASE Stock!LedgerNext /\ ~(\E c \in Counts : Stock!PostCount(c))
  <2>1. (\E c \in Counts, n \in 0..MaxHand : Stock!EnterCount(c, n))
          \/ (\E c \in Counts, b \in Balances : Stock!OpenCount(c, b))
          \/ count' = count \/ \E B : count' = Stock!Touched(B)
    BY <1>8 DEF Stock!LedgerNext, Stock!PlainMove, Stock!Transfer, Stock!Reverse, Stock!Reserve,
      Stock!Release, Stock!Dispatch, Stock!Relocate
  <2> QED
    BY <1>3, <1>4, <1>6, <1>7, <2>1
<1> QED
  BY <1>3, <1>5, <1>8 DEF Stock!ledgerVars

-----------------------------------------------------------------------------
(* The explosion of a bill of materials goes down from an item to what it is *)
(* made of; the levels that it should agree with go down all branches at     *)
(* once.  Both are recursive: what they are is proved from sets of numbers   *)
(* (ByNumbers).  Then a level is split into those of the components, which   *)
(* is how the explosion computes it.                                        *)

(* What the proofs about BillOfMaterials need beside its property: what a   *)
(* bill is, and one level down from the quantities v.                       *)
Billed == bills \in [Goods -> {None} \cup [Goods -> 0..MaxPer]]

Only(i, n) == [g \in Goods |-> IF g = i THEN n ELSE 0]
Down(v) ==
  [h \in Goods |->
    (IF Bom!Raw(h) THEN v[h] ELSE 0) + Total([g \in Bom!Made |-> v[g] * bills[g][h]], Bom!Made)]

LEMMA BillFacts ==
  ASSUME Billed
  PROVE  /\ IsFiniteSet(Goods) /\ Cardinality(Goods) \in Nat
         /\ IsFiniteSet(Bom!Made) /\ Bom!Made \in SUBSET Goods
         /\ \A g \in Goods : Price(g) \in Nat /\ Labour(g) \in Nat
         /\ \A g \in Goods : Bom!Raw(g) <=> g \notin Bom!Made
         /\ \A g \in Bom!Made : \A h \in Goods : bills[g][h] \in Nat
<1>1. \A g \in Bom!Made : g \in Goods /\ bills[g] \in [Goods -> 0..MaxPer]
  BY DEF Billed, Bom!Made, Bom!Raw
<1>2. \A g \in Bom!Made : \A h \in Goods : bills[g][h] \in Nat
  BY <1>1, BomAssumption DEF Bom!BomConstants
<1> QED
  BY <1>2, BomAssumption, FS_Subset, FS_CardinalityType DEF Bom!BomConstants, Bom!Made,
    Bom!IsFiniteSet, IsFiniteSet

LEMMA ComponentFacts ==
  ASSUME Billed, NEW i \in Bom!Made
  PROVE  /\ IsFiniteSet(Bom!Components(i)) /\ Bom!Components(i) \in SUBSET Goods
         /\ \A g \in Bom!Components(i) : bills[i][g] \in Nat \ {0}
         /\ \A g \in Goods \ Bom!Components(i) : bills[i][g] = 0
<1>1. IsFiniteSet(Goods) /\ \A g \in Goods : bills[i][g] \in Nat
  BY BillFacts
<1> QED
  BY <1>1, FS_Subset DEF Bom!Components

(* The levels are computed one from the other.                              *)
LEMMA LevelDefined ==
  ASSUME Billed, NEW i, NEW n
  PROVE  /\ Bom!Level(i, n)[0] = Only(i, n)
         /\ \A k \in Nat : k < Cardinality(Goods) =>
            Bom!Level(i, n)[k + 1] = Down(Bom!Level(i, n)[k])
<1> DEFINE Body(m, f) == [k \in 0..m |-> IF k = 0 THEN Only(i, n) ELSE Down(f[k - 1])]
           P == {m \in Nat : \E f : f = Body(m, f)}
<1>1. 0 \in P
  <2> DEFINE f == [k \in 0..0 |-> Only(i, n)]
  <2>1. f = Body(0, f)
    OBVIOUS
  <2> HIDE DEF f, Body
  <2> QED
    BY <2>1
<1>2. ASSUME NEW m \in Nat, m \in P
      PROVE  m + 1 \in P
  <2>1. PICK f : f = Body(m, f)
    BY <1>2
  <2> DEFINE g == [k \in 0..(m + 1) |-> IF k = m + 1 THEN Down(f[m]) ELSE f[k]]
  <2>2. \A k \in 0..m : g[k] = f[k] /\ f[k] = IF k = 0 THEN Only(i, n) ELSE Down(f[k - 1])
    <3>1. \A k \in 0..m : g[k] = f[k]
      OBVIOUS
    <3>2. \A k \in 0..m : f[k] = IF k = 0 THEN Only(i, n) ELSE Down(f[k - 1])
      BY <2>1
    <3> QED
      BY <3>1, <3>2
  <2>3. g[m + 1] = Down(f[m])
    OBVIOUS
  <2>4. DOMAIN g = 0..(m + 1) /\ g = [k \in 0..(m + 1) |-> g[k]]
    OBVIOUS
  <2> HIDE DEF g
  <2>5. ASSUME NEW k \in 0..(m + 1)
        PROVE  g[k] = IF k = 0 THEN Only(i, n) ELSE Down(g[k - 1])
    <3>1. CASE k = 0
      BY <2>2, <3>1
    <3>2. CASE k = m + 1
      <4>1. k # 0 /\ k - 1 = m /\ m \in 0..m
        BY <3>2
      <4> QED
        BY <2>2, <2>3, <3>2, <4>1
    <3>3. CASE k # 0 /\ k # m + 1
      <4>1. k \in 0..m /\ k - 1 \in 0..m
        BY <3>3
      <4> QED
        BY <2>2, <3>3, <4>1
    <3> QED
      BY <3>1, <3>2, <3>3
  <2>6. g = Body(m + 1, g)
    BY <2>4, <2>5, Zenon
  <2>7. m + 1 \in Nat
    OBVIOUS
  <2> HIDE DEF Body
  <2> QED
    BY <2>6, <2>7
<1>3. Cardinality(Goods) \in P
  <2>1. \A m \in Nat : m \in P
    <3> HIDE DEF P
    <3> QED
      BY <1>1, <1>2, ByNumbers
  <2> HIDE DEF P
  <2> QED
    BY <2>1, BillFacts
<1>4. PICK c \in Nat : c = Cardinality(Goods)
  BY BillFacts
<1>5. Bom!Level(i, n) = CHOOSE f : f = Body(c, f)
  BY <1>4 DEF Bom!Level, Only, Down,
    Bom!Total, Bom!Units, Bom!Cardinality, Total, Units, Cardinality
<1>6. Bom!Level(i, n) = Body(c, Bom!Level(i, n))
  <2>1. \E f : f = Body(c, f)
    BY <1>3, <1>4
  <2> HIDE DEF Body
  <2> QED
    BY <2>1, <1>5
<1>7. \A k \in 0..c : Bom!Level(i, n)[k] = IF k =
        0 THEN Only(i, n) ELSE Down(Bom!Level(i, n)[k - 1])
  <2>1. PICK f : f = Bom!Level(i, n)
    OBVIOUS
  <2>2. f = Body(c, f)
    BY <1>6, <2>1
  <2>3. \A k \in 0..c : f[k] = IF k = 0 THEN Only(i, n) ELSE Down(f[k - 1])
    BY <2>2
  <2> QED
    BY <2>1, <2>3, Zenon
<1>8. ASSUME NEW k \in Nat, k < c
      PROVE  Bom!Level(i, n)[k + 1] = Down(Bom!Level(i, n)[k])
  <2>1. k + 1 \in 0..c /\ k + 1 # 0 /\ (k + 1) - 1 = k
    BY <1>8
  <2> QED
    BY <1>7, <2>1
<1>9. Bom!Level(i, n)[0] = Only(i, n)
  BY <1>7
<1> QED
  BY <1>4, <1>8, <1>9

(* What one level down is: its quantities are numbers, and those of things   *)
(* that are taken together, or several times over, come to theirs.          *)
LEMMA Products == \A a, b \in Nat : a * b \in Nat
OBVIOUS

LEMMA Regrouped == \A a, b, c \in Nat : (a * b) * c = a * (b * c) /\ a * (b + c) = a * b + a * c
OBVIOUS

LEMMA FlowTypes ==
  ASSUME Billed, NEW v \in [Goods -> Nat], NEW h \in Goods
  PROVE  /\ \A g \in Bom!Made : [x \in Bom!Made |-> v[x] * bills[x][h]][g] \in Nat
         /\ Total([g \in Bom!Made |-> v[g] * bills[g][h]], Bom!Made) \in Nat
<1>1. \A g \in Bom!Made : v[g] \in Nat /\ bills[g][h] \in Nat
  BY BillFacts
<1>2. \A g \in Bom!Made : v[g] * bills[g][h] \in Nat
  BY <1>1, Products
<1>3. \A g \in Bom!Made : [x \in Bom!Made |-> v[x] * bills[x][h]][g] \in Nat
  BY <1>2
<1> QED
  BY <1>3, BillFacts, TotalNatural

LEMMA DownTypes ==
  ASSUME Billed, NEW v \in [Goods -> Nat]
  PROVE  Down(v) \in [Goods -> Nat]
<1>1. \A h \in Goods : Total([g \in Bom!Made |-> v[g] * bills[g][h]], Bom!Made) \in Nat
  BY FlowTypes
<1> QED
  BY <1>1 DEF Down

LEMMA LevelTypes ==
  ASSUME Billed, NEW i \in Goods, NEW n \in Nat
  PROVE  \A k \in 0..Cardinality(Goods) : Bom!Level(i, n)[k] \in [Goods -> Nat]
<1> DEFINE P == {k \in Nat : k <= Cardinality(Goods) => Bom!Level(i, n)[k] \in [Goods -> Nat]}
<1>1. 0 \in P
  <2>1. Only(i, n) \in [Goods -> Nat]
    BY DEF Only
  <2>2. Bom!Level(i, n)[0] = Only(i, n)
    BY LevelDefined
  <2> QED
    BY <2>1, <2>2
<1>2. ASSUME NEW k \in Nat, k \in P
      PROVE  k + 1 \in P
  <2>1. CASE k < Cardinality(Goods)
    <3>1. Bom!Level(i, n)[k] \in [Goods -> Nat]
      BY <1>2, <2>1, BillFacts
    <3>2. Bom!Level(i, n)[k + 1] \in [Goods -> Nat]
      BY <2>1, <3>1, LevelDefined, DownTypes
    <3> QED
      BY <3>2
  <2>2. CASE ~(k < Cardinality(Goods))
    BY <2>2, BillFacts
  <2> QED
    BY <2>1, <2>2
<1>3. \A k \in Nat : k \in P
  <2> HIDE DEF P
  <2> QED
    BY <1>1, <1>2, ByNumbers
<1> QED
  BY <1>3, BillFacts

LEMMA DownTimes ==
  ASSUME Billed, NEW v \in [Goods -> Nat], NEW w \in [Goods -> Nat],
         NEW c \in Nat, \A g \in Goods : w[g] = c * v[g]
  PROVE  \A h \in Goods : Down(w)[h] = c * Down(v)[h]
<1>1. SUFFICES ASSUME NEW h \in Goods
               PROVE  Down(w)[h] = c * Down(v)[h]
  OBVIOUS
<1>2. PICK f, e : /\ f = [g \in Bom!Made |-> v[g] * bills[g][h]]
                  /\ e = [g \in Bom!Made |-> w[g] * bills[g][h]]
  OBVIOUS
<1>3. ASSUME NEW g \in Bom!Made
      PROVE  f[g] \in Nat /\ e[g] = c * f[g]
  <2>1. PICK a \in Nat, b \in Nat : a = v[g] /\ b = bills[g][h]
    BY BillFacts
  <2>2. w[g] = c * a
    BY <2>1, BillFacts
  <2>3. f[g] = a * b /\ e[g] = (c * a) * b
    BY <1>2, <2>1, <2>2
  <2>4. (c * a) * b = c * (a * b) /\ a * b \in Nat
    BY Regrouped, Products
  <2> QED
    BY <2>3, <2>4
<1>4. Total(e, Bom!Made) = c * Total(f, Bom!Made) /\ Total(f, Bom!Made) \in Nat
  BY <1>3, BillFacts, TotalTimes, TotalNatural
<1>5. /\ Down(v)[h] = (IF Bom!Raw(h) THEN v[h] ELSE 0) + Total(f, Bom!Made)
      /\ Down(w)[h] = (IF Bom!Raw(h) THEN w[h] ELSE 0) + Total(e, Bom!Made)
  BY <1>2 DEF Down
<1>6. PICK a \in Nat, b \in Nat : a = v[h] /\ b = Total(f, Bom!Made)
  BY <1>4
<1>7. w[h] = c * a /\ c * (a + b) = c * a + c * b /\ c * (0 + b) = 0 + c * b
  BY <1>6, Regrouped
<1> QED
  BY <1>4, <1>5, <1>6, <1>7

(* When the quantities v are those of the parts C together, so are those    *)
(* one level down.                                                          *)
Lower(f, C) == [c \in C |-> Down(f[c])]

LEMMA DownTogether ==
  ASSUME Billed, NEW C, IsFiniteSet(C), NEW f, NEW v,
         \A c \in C : f[c] \in [Goods -> Nat],
         \A g \in Goods : v[g] = Together(f, C, g)
  PROVE  \A h \in Goods : Down(v)[h] = Together(Lower(f, C), C, h)
<1>1. SUFFICES ASSUME NEW h \in Goods
               PROVE  Down(v)[h] = Together(Lower(f, C), C, h)
  OBVIOUS
<1> DEFINE kept == [c \in C |-> IF Bom!Raw(h) THEN f[c][h] ELSE 0]
           gone == [c \in C |-> Total([g \in Bom!Made |-> f[c][g] * bills[g][h]], Bom!Made)]
<1>2. \A c \in C : \A g \in Goods : f[c][g] \in Nat
  OBVIOUS
<1>3. Total([g \in Bom!Made |-> v[g] * bills[g][h]], Bom!Made) = Total(gone, C)
  <2>1. PICK p : p = [g \in Bom!Made |-> bills[g][h]]
    OBVIOUS
  <2>2. \A g \in Bom!Made : p[g] = bills[g][h] /\ p[g] \in Nat /\ g \in Goods
    BY <2>1, BillFacts
  <2>3. Weighted(v, p, Bom!Made) = Total([c \in C |-> Weighted(f[c], p, Bom!Made)], C)
    <3>1. \A c \in C : \A g \in Bom!Made : f[c][g] \in Nat
      BY <1>2, <2>2
    <3>2. \A g \in Bom!Made : v[g] = Together(f, C, g)
      BY <2>2
    <3>3. \A g \in Bom!Made : p[g] \in Nat
      BY <2>2
    <3>4. IsFiniteSet(Bom!Made)
      BY BillFacts
    <3> HIDE DEF kept, gone
    <3> QED
      BY <3>1, <3>2, <3>3, <3>4, TotalWeighted
  <2>4. /\ [g \in Bom!Made |-> v[g] * p[g]] = [g \in Bom!Made |-> v[g] * bills[g][h]]
        /\ \A c \in C :
           [g \in Bom!Made |-> f[c][g] * p[g]] = [g \in Bom!Made |-> f[c][g] * bills[g][h]]
    BY <2>2
  <2>5. [c \in C |-> Weighted(f[c], p, Bom!Made)] = gone
    BY <2>4 DEF Weighted
  <2> QED
    BY <2>3, <2>4, <2>5 DEF Weighted
<1>4. (IF Bom!Raw(h) THEN v[h] ELSE 0) = Total(kept, C)
  <2>1. CASE Bom!Raw(h)
    <3>1. kept = [c \in C |-> f[c][h]]
      BY <2>1
    <3> QED
      BY <2>1, <3>1 DEF Together
  <2>2. CASE ~Bom!Raw(h)
    <3>1. \A c \in C : kept[c] = 0
      BY <2>2
    <3> QED
      BY <2>2, <3>1, TotalZero
  <2> QED
    BY <2>1, <2>2
<1>5. \A c \in C : /\ kept[c] \in Nat /\ gone[c] \in Nat
                   /\ Down(f[c])[h] = kept[c] + gone[c]
  <2>1. \A c \in C : kept[c] = (IF Bom!Raw(h) THEN f[c][h] ELSE 0) /\ kept[c] \in Nat
    BY <1>2
  <2>2. \A c \in C : gone[c] = Total([g \in Bom!Made |-> f[c][g] * bills[g][h]], Bom!Made)
    OBVIOUS
  <2>3. \A c \in C : gone[c] \in Nat
    BY <2>2, FlowTypes
  <2>4. \A c \in C : Down(f[c])[h] = (IF Bom!Raw(h) THEN f[c][h] ELSE 0)
                       + Total([g \in Bom!Made |-> f[c][g] * bills[g][h]], Bom!Made)
    BY DEF Down
  <2> HIDE DEF kept, gone
  <2> QED
    BY <2>1, <2>2, <2>3, <2>4
<1>6. Down(v)[h] = Total(kept, C) + Total(gone, C)
  <2> HIDE DEF kept, gone
  <2> QED
    BY <1>3, <1>4 DEF Down
<1> HIDE DEF kept, gone
<1>7. PICK all : all = [c \in C |-> Lower(f, C)[c][h]]
  OBVIOUS
<1>8. \A c \in C : all[c] = kept[c] + gone[c]
  BY <1>5, <1>7 DEF Lower
<1>9. Total(all, C) = Total(kept, C) + Total(gone, C)
  BY <1>5, <1>8, TotalPlus
<1> QED
  BY <1>6, <1>7, <1>9 DEF Together

(* What has no bill stays, and what is only that is the same on every level *)
(* below.                                                                   *)
Settled(v) == \A g \in Goods : v[g] > 0 => Bom!Raw(g)

LEMMA SettledStays ==
  ASSUME Billed, NEW v \in [Goods -> Nat], Settled(v)
  PROVE  Down(v) = v
<1>1. SUFFICES ASSUME NEW h \in Goods
               PROVE  Down(v)[h] = v[h]
  <2>1. Down(v) \in [Goods -> Nat]
    BY DownTypes
  <2> QED
    BY <2>1
<1>2. PICK f : f = [g \in Bom!Made |-> v[g] * bills[g][h]]
  OBVIOUS
<1>3. \A g \in Goods \cap Bom!Made : v[g] = 0
  BY BillFacts DEF Settled
<1>4. \A g \in Bom!Made : f[g] = 0
  <2>1. \A g \in Bom!Made : v[g] = 0 /\ bills[g][h] \in Nat
    BY <1>3, BillFacts
  <2> QED
    BY <1>2, <2>1
<1>5. Total(f, Bom!Made) = 0
  BY <1>4, TotalZero
<1>6. Down(v)[h] = (IF Bom!Raw(h) THEN v[h] ELSE 0) + Total(f, Bom!Made)
  BY <1>2 DEF Down
<1>7. v[h] \in Nat /\ (~Bom!Raw(h) => v[h] = 0)
  BY <1>3, BillFacts
<1> QED
  BY <1>5, <1>6, <1>7

LEMMA SettledRemains ==
  ASSUME Billed, NEW i \in Goods, NEW n \in Nat, NEW k \in Nat,
         k < Cardinality(Goods), Settled(Bom!Level(i, n)[k])
  PROVE  Bom!Level(i, n)[k + 1] = Bom!Level(i, n)[k]
<1>1. Bom!Level(i, n)[k] \in [Goods -> Nat]
  BY LevelTypes, BillFacts
<1> QED
  BY <1>1, SettledStays, LevelDefined

LEMMA OnlySettled ==
  ASSUME Billed, NEW i \in Goods, Bom!Raw(i), NEW n \in Nat,
         NEW k \in 0..Cardinality(Goods)
  PROVE  Bom!Level(i, n)[k] = Only(i, n) /\ Settled(Bom!Level(i, n)[k])
<1> DEFINE P == {j \in Nat : j <= Cardinality(Goods) => Bom!Level(i, n)[j] = Only(i, n)}
<1>1. 0 \in P
  BY LevelDefined
<1>2. Settled(Only(i, n))
  BY DEF Settled, Only
<1>3. ASSUME NEW j \in Nat, j \in P
      PROVE  j + 1 \in P
  <2>1. CASE j < Cardinality(Goods)
    <3>1. Bom!Level(i, n)[j] = Only(i, n)
      BY <1>3, <2>1, BillFacts
    <3>2. Bom!Level(i, n)[j + 1] = Only(i, n)
      BY <1>2, <2>1, <3>1, SettledRemains
    <3> QED
      BY <3>2
  <2>2. CASE ~(j < Cardinality(Goods))
    BY <2>2, BillFacts
  <2> QED
    BY <2>1, <2>2
<1>4. \A j \in Nat : j \in P
  <2> HIDE DEF P
  <2> QED
    BY <1>1, <1>3, ByNumbers
<1>5. Bom!Level(i, n)[k] = Only(i, n)
  BY <1>4, BillFacts
<1> QED
  BY <1>2, <1>5

(* n pieces need n times what one needs. *)
LEMMA LevelTimes ==
  ASSUME Billed, NEW i \in Goods, NEW n \in Nat, NEW k \in 0..Cardinality(Goods)
  PROVE  \A h \in Goods : Bom!Level(i, n)[k][h] = n * Bom!Level(i, 1)[k][h]
<1> DEFINE P == {j \in Nat : j <= Cardinality(Goods) =>
                   \A h \in Goods : Bom!Level(i, n)[j][h] = n * Bom!Level(i, 1)[j][h]}
<1>1. 0 \in P
  <2>1. Bom!Level(i, n)[0] = Only(i, n) /\ Bom!Level(i, 1)[0] = Only(i, 1)
    BY LevelDefined
  <2>2. \A h \in Goods : Only(i, n)[h] = n * Only(i, 1)[h]
    BY DEF Only
  <2> QED
    BY <2>1, <2>2
<1>2. ASSUME NEW j \in Nat, j \in P
      PROVE  j + 1 \in P
  <2>1. CASE j < Cardinality(Goods)
    <3>1. \A h \in Goods : Bom!Level(i, n)[j][h] = n * Bom!Level(i, 1)[j][h]
      BY <1>2, <2>1, BillFacts
    <3>2. Bom!Level(i, n)[j] \in [Goods -> Nat] /\ Bom!Level(i, 1)[j] \in [Goods -> Nat]
      BY <2>1, LevelTypes, BillFacts
    <3>3. \A h \in Goods : Down(Bom!Level(i, n)[j])[h] = n * Down(Bom!Level(i, 1)[j])[h]
      BY <3>1, <3>2, DownTimes
    <3>4. \A h \in Goods : Bom!Level(i, n)[j + 1][h] = n * Bom!Level(i, 1)[j + 1][h]
      BY <2>1, <3>3, LevelDefined
    <3> QED
      BY <3>4
  <2>2. CASE ~(j < Cardinality(Goods))
    BY <2>2, BillFacts
  <2> QED
    BY <2>1, <2>2
<1>3. \A j \in Nat : j \in P
  <2> HIDE DEF P
  <2> QED
    BY <1>1, <1>2, ByNumbers
<1> QED
  BY <1>3, BillFacts

(* What an item with a bill needs one level further down is what its        *)
(* components need together.                                                *)
Parts(i, n, k) == [c \in Bom!Components(i) |-> Bom!Level(c, n * bills[i][c])[k]]

LEMMA FirstLevel ==
  ASSUME Billed, NEW i \in Bom!Made, NEW n \in Nat, 0 < Cardinality(Goods)
  PROVE  \A h \in Goods : Bom!Level(i, n)[1][h] = Together(Parts(i, n, 0), Bom!Components(i), h)
<1>1. SUFFICES ASSUME NEW h \in Goods
               PROVE  Bom!Level(i, n)[1][h] = Together(Parts(i, n, 0), Bom!Components(i), h)
  OBVIOUS
<1>2. PICK f, b : f = [g \in Bom!Made |-> Only(i, n)[g] * bills[g][h]] /\ b = bills[i][h]
  OBVIOUS
<1>3. b \in Nat /\ i \in Goods /\ ~Bom!Raw(i)
  BY <1>2, BillFacts
<1>4. f[i] = n * b /\ n * b \in Nat
  <2>1. Only(i, n)[i] = n
    BY <1>3 DEF Only
  <2> QED
    BY <1>2, <1>3, <2>1, Products
<1>5. \A g \in Bom!Made \ {i} : f[g] = 0
  <2>1. \A g \in Bom!Made \ {i} : Only(i, n)[g] = 0 /\ bills[g][h] \in Nat
    BY BillFacts DEF Only
  <2> QED
    BY <1>2, <2>1
<1>6. Total(f, Bom!Made) = n * b
  BY <1>4, <1>5, BillFacts, TotalOnly
<1>7. Down(Only(i, n))[h] = n * b
  <2>1. Down(Only(i, n))[h] = (IF Bom!Raw(h) THEN Only(i, n)[h] ELSE 0) + Total(f, Bom!Made)
    BY <1>2 DEF Down
  <2>2. Bom!Raw(h) => Only(i, n)[h] = 0
    BY <1>3 DEF Only
  <2> QED
    BY <1>4, <1>6, <2>1, <2>2
<1>8. Bom!Level(i, n)[1] = Down(Only(i, n))
  <2>1. Bom!Level(i, n)[0 + 1] = Down(Bom!Level(i, n)[0]) /\ Bom!Level(i, n)[0] = Only(i, n)
    BY LevelDefined
  <2>2. 0 + 1 = 1
    OBVIOUS
  <2> QED
    BY <2>1, <2>2
<1>9. PICK C, e : C = Bom!Components(i) /\ e = [c \in C |-> Parts(i, n, 0)[c][h]]
  OBVIOUS
<1>10. \A c \in C : e[c] = Only(c, n * bills[i][c])[h]
  BY <1>9, LevelDefined DEF Parts
<1>11. \A c \in C : e[c] = IF h = c THEN n * b ELSE 0
  BY <1>2, <1>10 DEF Only
<1>12. Total(e, C) = n * b
  <2>1. CASE h \in C
    <3>1. e[h] = n * b /\ \A c \in C \ {h} : e[c] = 0
      BY <1>11, <2>1
    <3>2. IsFiniteSet(C)
      BY <1>9, ComponentFacts
    <3>3. Total(e, C) = e[h]
      BY <1>4, <2>1, <3>1, <3>2, TotalOnly
    <3> QED
      BY <3>1, <3>3
  <2>2. CASE h \notin C
    <3>1. \A c \in C : e[c] = 0
      BY <1>11, <2>2
    <3>2. b = 0
      BY <1>2, <1>9, <2>2, ComponentFacts
    <3>3. n * b = 0
      BY <3>2
    <3> QED
      BY <3>1, <3>3, TotalZero
  <2> QED
    BY <2>1, <2>2
<1> QED
  BY <1>7, <1>8, <1>9, <1>12 DEF Together

LEMMA PartTypes ==
  ASSUME Billed, NEW i \in Bom!Made, NEW n \in Nat, NEW k \in 0..Cardinality(Goods)
  PROVE  \A c \in Bom!Components(i) :
           /\ n * bills[i][c] \in Nat /\ c \in Goods
           /\ Parts(i, n, k)[c] = Bom!Level(c, n * bills[i][c])[k]
           /\ Parts(i, n, k)[c] \in [Goods -> Nat]
<1>1. \A c \in Bom!Components(i) : n * bills[i][c] \in Nat /\ c \in Goods
  BY ComponentFacts, Products
<1> QED
  BY <1>1, LevelTypes DEF Parts

LEMMA LevelSplit ==
  ASSUME Billed, NEW i \in Bom!Made, NEW n \in Nat, NEW k \in Nat,
         k < Cardinality(Goods)
  PROVE  \A h \in Goods : Bom!Level(i, n)[k + 1][h] = Together(Parts(i, n, k), Bom!Components(i), h)
<1> DEFINE P == {j \in Nat : j < Cardinality(Goods) =>
                   \A h \in Goods :
                     Bom!Level(i, n)[j + 1][h] = Together(Parts(i, n, j), Bom!Components(i), h)}
<1>1. 0 \in P
  <2>1. 0 + 1 = 1
    OBVIOUS
  <2> QED
    BY <2>1, FirstLevel
<1>2. ASSUME NEW j \in Nat, j \in P
      PROVE  j + 1 \in P
  <2>1. CASE j + 1 < Cardinality(Goods)
    <3>1. PICK v, f, C : v = Bom!Level(i, n)[j + 1] /\ f = Parts(i, n, j) /\ C = Bom!Components(i)
      OBVIOUS
    <3>2. /\ j \in 0..Cardinality(Goods) /\ j + 1 \in 0..Cardinality(Goods)
          /\ j < Cardinality(Goods) /\ i \in Goods
      BY <2>1, BillFacts
    <3>3. v \in [Goods -> Nat]
      BY <3>1, <3>2, LevelTypes
    <3>4. \A h \in Goods : v[h] = Together(f, C, h)
      BY <1>2, <3>1, <3>2
    <3>5. \A c \in C : f[c] \in [Goods -> Nat]
      BY <3>1, <3>2, PartTypes
    <3>6. IsFiniteSet(C)
      BY <3>1, ComponentFacts
    <3>7. \A h \in Goods : Down(v)[h] = Together(Lower(f, C), C, h)
      BY <3>3, <3>4, <3>5, <3>6, DownTogether
    <3>8. Lower(f, C) = Parts(i, n, j + 1)
      <4>1. \A c \in C :
              /\ f[c] = Bom!Level(c, n * bills[i][c])[j]
              /\ Parts(i, n, j + 1)[c] = Bom!Level(c, n * bills[i][c])[j + 1]
        BY <3>1 DEF Parts
      <4>2. \A c, m : Bom!Level(c, m)[j + 1] = Down(Bom!Level(c, m)[j])
        BY <3>2, LevelDefined
      <4>3. \A c \in C : Down(f[c]) = Parts(i, n, j + 1)[c]
        BY <4>1, <4>2
      <4>4. Parts(i, n, j + 1) = [c \in C |-> Parts(i, n, j + 1)[c]]
        BY <3>1 DEF Parts
      <4> QED
        BY <4>3, <4>4 DEF Lower
    <3>9. Bom!Level(i, n)[(j + 1) + 1] = Down(v)
      BY <2>1, <3>1, LevelDefined
    <3> QED
      BY <3>1, <3>7, <3>8, <3>9
  <2>2. CASE ~(j + 1 < Cardinality(Goods))
    BY <2>2
  <2> QED
    BY <2>1, <2>2
<1>3. \A j \in Nat : j \in P
  <2> HIDE DEF P
  <2> QED
    BY <1>1, <1>2, ByNumbers
<1> QED
  BY <1>3

(* An explosion is computed from those of the components, with one item more *)
(* above them.                                                              *)
Below(f, above, i, n) == [g \in Bom!Components(i) |-> f[above \cup {i}][g][n * bills[i][g]]]
Gathered(i, n, parts) ==
  IF \E g \in Bom!Components(i) : parts[g].loops THEN Bom!Loop
  ELSE [loops |-> FALSE,
        raw |-> [h \in Goods |-> Total([g \in Bom!Components(i) |-> parts[g].raw[h]],
          Bom!Components(i))],
        cost |-> Total([g \in Bom!Components(i) |-> parts[g].cost], Bom!Components(i))
          + n * Labour(i)]
Alone(i, n) ==
  [loops |-> FALSE, raw |-> [g \in Goods |-> IF g = i THEN n ELSE 0], cost |-> n * Price(i)]
Once(f, above, i, n) ==
  IF i \in above THEN Bom!Loop
  ELSE IF Bom!Raw(i) THEN Alone(i, n) ELSE Gathered(i, n, Below(f, above, i, n))

LEMMA ExplodeExists ==
  ASSUME Billed
  PROVE  \E f : f = [above \in SUBSET Goods |-> [i \in Goods |-> [n \in Nat |->
                      Once(f, above, i, n)]]]
<1> DEFINE Done(f, m) ==
             \A above \in SUBSET Goods : Cardinality(Goods \ above) <= m =>
               \A i \in Goods : \A n \in Nat : f[above][i][n] = Once(f, above, i, n)
           P == {m \in Nat : \E f : Done(f, m)}
<1>1. 0 \in P
  <2> DEFINE f == [above \in SUBSET Goods |-> [i \in Goods |-> [n \in Nat |-> Bom!Loop]]]
  <2>1. ASSUME NEW above \in SUBSET Goods, Cardinality(Goods \ above) <= 0,
               NEW i \in Goods, NEW n \in Nat
        PROVE  f[above][i][n] = Once(f, above, i, n)
    <3>1. IsFiniteSet(Goods \ above)
      BY BillFacts, FS_Difference
    <3>2. Cardinality(Goods \ above) = 0
      BY <2>1, <3>1, FS_CardinalityType
    <3>3. i \in above
      BY <3>1, <3>2, FS_EmptySet
    <3> QED
      BY <3>3 DEF Once
  <2>2. Done(f, 0)
    BY <2>1
  <2> QED
    BY <2>2
<1>2. ASSUME NEW m \in Nat, m \in P
      PROVE  m + 1 \in P
  <2>1. PICK f : Done(f, m)
    BY <1>2
  <2> DEFINE g == [above \in SUBSET Goods |->
                    IF Cardinality(Goods \ above) <= m THEN f[above]
                    ELSE [i \in Goods |-> [n \in Nat |-> Once(f, above, i, n)]]]
  <2>2. \A above \in SUBSET Goods :
          /\ Cardinality(Goods \ above) <= m => g[above] = f[above]
          /\ ~(Cardinality(Goods \ above) <= m) =>
               \A i \in Goods : \A n \in Nat : g[above][i][n] = Once(f, above, i, n)
    OBVIOUS
  <2> HIDE DEF g
  <2>3. ASSUME NEW above \in SUBSET Goods, Cardinality(Goods \ above) <= m + 1,
               NEW i \in Goods, NEW n \in Nat
        PROVE  g[above][i][n] = Once(g, above, i, n)
    <3>1. g[above][i][n] = Once(f, above, i, n)
      BY <2>1, <2>2
    <3>2. CASE i \in above
      BY <3>1, <3>2 DEF Once
    <3>3. CASE i \notin above
      <4>1. IsFiniteSet(Goods \ above) /\ i \in Goods \ above
        BY <3>3, BillFacts, FS_Difference
      <4>2. (Goods \ above) \ {i} = Goods \ (above \cup {i}) /\ above \cup {i} \in SUBSET Goods
        OBVIOUS
      <4>3. Cardinality(Goods \ (above \cup {i})) = Cardinality(Goods \ above) - 1
        BY <4>1, <4>2, FS_RemoveElement
      <4>4. Cardinality(Goods \ above) \in Nat
        BY <4>1, FS_CardinalityType
      <4>5. Cardinality(Goods \ (above \cup {i})) <= m
        BY <2>3, <4>3, <4>4
      <4>6. g[above \cup {i}] = f[above \cup {i}]
        BY <2>2, <4>2, <4>5
      <4>7. Below(g, above, i, n) = Below(f, above, i, n)
        BY <4>6 DEF Below
      <4> QED
        BY <3>1, <4>7 DEF Once
    <3> QED
      BY <3>2, <3>3
  <2>4. Done(g, m + 1)
    BY <2>3
  <2>5. m + 1 \in Nat
    OBVIOUS
  <2> HIDE DEF Done
  <2> QED
    BY <2>4, <2>5
<1>3. Cardinality(Goods) \in P
  <2>1. \A m \in Nat : m \in P
    <3> HIDE DEF P
    <3> QED
      BY <1>1, <1>2, ByNumbers
  <2> HIDE DEF P
  <2> QED
    BY <2>1, BillFacts
<1>4. PICK f : Done(f, Cardinality(Goods))
  BY <1>3
<1>5. \A above \in SUBSET Goods : \A i \in Goods : \A n \in Nat :
        f[above][i][n] = Once(f, above, i, n)
  <2>1. \A above \in SUBSET Goods : Cardinality(Goods \ above) <= Cardinality(Goods)
    <3>1. \A above \in SUBSET Goods : Goods \ above \subseteq Goods
      OBVIOUS
    <3> QED
      BY <3>1, BillFacts, FS_Subset
  <2> QED
    BY <1>4, <2>1
<1> DEFINE e == [above \in SUBSET Goods |-> [i \in Goods |-> [n \in Nat |-> f[above][i][n]]]]
<1>6. \A above \in SUBSET Goods : \A i \in Goods : \A n \in Nat :
        e[above][i][n] = f[above][i][n]
  OBVIOUS
<1> HIDE DEF e
<1>7. ASSUME NEW above \in SUBSET Goods, NEW i \in Goods, NEW n \in Nat
      PROVE  f[above][i][n] = Once(e, above, i, n)
  <2>1. CASE i \in above \/ Bom!Raw(i)
    BY <1>5, <2>1 DEF Once
  <2>2. CASE i \notin above /\ ~Bom!Raw(i)
    <3>1. i \in Bom!Made
      BY <2>2, BillFacts
    <3>2. \A g \in Bom!Components(i) : g \in Goods /\ n * bills[i][g] \in Nat
      BY <3>1, PartTypes, BillFacts
    <3>3. above \cup {i} \in SUBSET Goods
      OBVIOUS
    <3>4. \A g \in Bom!Components(i) : e[above \cup {i}][g][n * bills[i][g]]
                                     = f[above \cup {i}][g][n * bills[i][g]]
      BY <1>6, <3>2, <3>3
    <3>5. Below(e, above, i, n) = Below(f, above, i, n)
      BY <3>4 DEF Below
    <3> QED
      BY <1>5, <3>5 DEF Once
  <2> QED
    BY <2>1, <2>2
<1>8. e = [above \in SUBSET Goods |-> [i \in Goods |-> [n \in Nat |-> Once(e, above, i, n)]]]
  <2>1. \A above \in SUBSET Goods :
          [i \in Goods |-> [n \in Nat |-> f[above][i][n]]]
            = [i \in Goods |-> [n \in Nat |-> Once(e, above, i, n)]]
    BY <1>7
  <2>2. e = [above \in SUBSET Goods |-> [i \in Goods |-> [n \in Nat |-> f[above][i][n]]]]
    BY DEF e
  <2> QED
    BY <2>1, <2>2
<1> QED
  BY <1>8

LEMMA ExplodeDefined ==
  ASSUME Billed, NEW above \in SUBSET Goods, NEW i \in Goods, NEW n \in Nat
  PROVE  Bom!Explode[above][i][n] = Once(Bom!Explode, above, i, n)
<1> DEFINE Body(f) == [a \in SUBSET Goods |-> [j \in Goods |-> [m \in Nat |-> Once(f, a, j, m)]]]
<1>1. Bom!Explode = CHOOSE f : f = Body(f)
  BY DEF Bom!Explode, Once, Below, Gathered, Alone,
    Bom!Total, Bom!Units, Bom!Cardinality, Total, Units, Cardinality
<1>2. Bom!Explode = Body(Bom!Explode)
  <2>1. \E f : f = Body(f)
    BY ExplodeExists
  <2> HIDE DEF Body
  <2> QED
    BY <1>1, <2>1
<1>3. PICK f : f = Bom!Explode
  OBVIOUS
<1>4. f = Body(f)
  BY <1>2, <1>3
<1>5. f[above][i][n] = Once(f, above, i, n)
  <2>1. f[above] = [j \in Goods |-> [m \in Nat |-> Once(f, above, j, m)]]
    BY <1>4
  <2> QED
    BY <2>1
<1> QED
  BY <1>3, <1>5

(* What raw items cost, and the work on one level and on the first levels. *)
Cost(v) == Total([g \in Goods |-> v[g] * Price(g)], Goods)
Work(v) == Total([g \in Bom!Made |-> v[g] * Labour(g)], Bom!Made)
Works(i, n, k) == Total([j \in 0..k |-> Work(Bom!Level(i, n)[j])], 0..k)

LEMMA CostTypes ==
  ASSUME Billed, NEW v \in [Goods -> Nat]
  PROVE  Cost(v) \in Nat /\ Work(v) \in Nat
<1>1. \A g \in Goods : v[g] * Price(g) \in Nat /\ v[g] * Labour(g) \in Nat
  BY Products, BillFacts
<1>2. /\ \A g \in Goods : [x \in Goods |-> v[x] * Price(x)][g] \in Nat
      /\ \A g \in Bom!Made : [x \in Bom!Made |-> v[x] * Labour(x)][g] \in Nat
  BY <1>1, BillFacts
<1>3. Cost(v) \in Nat
  BY <1>2, BillFacts, TotalNatural DEF Cost
<1>4. Work(v) \in Nat
  BY <1>2, BillFacts, TotalNatural DEF Work
<1> QED
  BY <1>3, <1>4

LEMMA CostTogether ==
  ASSUME Billed, NEW C, IsFiniteSet(C), NEW f, NEW v,
         \A c \in C : f[c] \in [Goods -> Nat],
         \A g \in Goods : v[g] = Together(f, C, g)
  PROVE  /\ Cost(v) = Total([c \in C |-> Cost(f[c])], C)
         /\ Work(v) = Total([c \in C |-> Work(f[c])], C)
<1>1. \A c \in C : \A g \in Goods : f[c][g] \in Nat
  OBVIOUS
<1>2. PICK p, q : p = [g \in Goods |-> Price(g)] /\ q = [g \in Goods |-> Labour(g)]
  OBVIOUS
<1>3. \A g \in Goods : p[g] = Price(g) /\ q[g] = Labour(g) /\ p[g] \in Nat /\ q[g] \in Nat
  BY <1>2, BillFacts
<1>4. IsFiniteSet(Goods) /\ IsFiniteSet(Bom!Made) /\ \A g \in Bom!Made : g \in Goods
  BY BillFacts
<1>5. Weighted(v, p, Goods) = Total([c \in C |-> Weighted(f[c], p, Goods)], C)
  <2>1. \A g \in Goods : p[g] \in Nat
    BY <1>3
  <2> QED
    BY <1>1, <1>4, <2>1, TotalWeighted
<1>6. Weighted(v, q, Bom!Made) = Total([c \in C |-> Weighted(f[c], q, Bom!Made)], C)
  <2>1. \A c \in C : \A g \in Bom!Made : f[c][g] \in Nat
    BY <1>1, <1>4
  <2>2. \A g \in Bom!Made : v[g] = Together(f, C, g)
    BY <1>4
  <2>3. \A g \in Bom!Made : q[g] \in Nat
    BY <1>3, <1>4
  <2> QED
    BY <1>4, <2>1, <2>2, <2>3, TotalWeighted
<1>7. \A w : Weighted(w, p, Goods) = Cost(w) /\ Weighted(w, q, Bom!Made) = Work(w)
  <2>1. \A w : /\ [g \in Goods |-> w[g] * p[g]] = [g \in Goods |-> w[g] * Price(g)]
               /\ [g \in Bom!Made |-> w[g] * q[g]] = [g \in Bom!Made |-> w[g] * Labour(g)]
    BY <1>3, <1>4
  <2> QED
    BY <2>1 DEF Weighted, Cost, Work
<1>8. /\ [c \in C |-> Weighted(f[c], p, Goods)] = [c \in C |-> Cost(f[c])]
      /\ [c \in C |-> Weighted(f[c], q, Bom!Made)] = [c \in C |-> Work(f[c])]
  BY <1>7
<1> QED
  BY <1>5, <1>6, <1>7, <1>8

LEMMA WorksFirst ==
  ASSUME Billed, NEW i \in Goods, NEW n \in Nat
  PROVE  Works(i, n, 0) = Work(Only(i, n))
           /\ Work(Only(i, n)) = IF Bom!Raw(i) THEN 0 ELSE n * Labour(i)
<1>1. Only(i, n) \in [Goods -> Nat]
  BY DEF Only
<1>2. Works(i, n, 0) = Work(Only(i, n))
  <2>1. PICK w, S : w = [j \in 0..0 |-> Work(Bom!Level(i, n)[j])] /\ S = 0..0
    OBVIOUS
  <2>2. w[0] = Work(Only(i, n)) /\ S = {0}
    BY <2>1, LevelDefined
  <2>3. IsFiniteSet(S) /\ 0 \in S /\ w[0] \in Nat /\ \A j \in S \ {0} : w[j] = 0
    BY <1>1, <2>2, CostTypes, FS_Singleton
  <2>4. Total(w, S) = w[0]
    BY <2>3, TotalOnly
  <2> QED
    BY <2>1, <2>2, <2>4 DEF Works
<1>3. PICK w : w = [g \in Bom!Made |-> Only(i, n)[g] * Labour(g)]
  OBVIOUS
<1>4. \A g \in Bom!Made : w[g] = IF g = i THEN n * Labour(i) ELSE 0
  <2>1. \A g \in Bom!Made : g \in Goods /\ Labour(g) \in Nat /\ 0 * Labour(g) = 0
    BY BillFacts
  <2> QED
    BY <1>3, <2>1 DEF Only
<1>5. CASE Bom!Raw(i)
  <2>1. \A g \in Bom!Made : w[g] = 0
    BY <1>4, <1>5, BillFacts
  <2> QED
    BY <1>2, <1>3, <1>5, <2>1, TotalZero DEF Work
<1>6. CASE ~Bom!Raw(i)
  <2>1. i \in Bom!Made /\ n * Labour(i) \in Nat
    BY <1>6, BillFacts, Products
  <2>2. w[i] = n * Labour(i) /\ \A g \in Bom!Made \ {i} : w[g] = 0
    BY <1>4, <2>1
  <2>3. Total(w, Bom!Made) = w[i]
    BY <2>1, <2>2, BillFacts, TotalOnly
  <2> QED
    BY <1>2, <1>3, <1>6, <2>2, <2>3 DEF Work
<1> QED
  BY <1>5, <1>6

LEMMA WorksNext ==
  ASSUME Billed, NEW i \in Goods, NEW n \in Nat, NEW k \in Nat,
         k < Cardinality(Goods)
  PROVE  /\ Works(i, n, k) \in Nat
         /\ Works(i, n, k + 1) = Works(i, n, k) + Work(Bom!Level(i, n)[k + 1])
<1>1. PICK w, v : /\ w = [j \in 0..(k + 1) |-> Work(Bom!Level(i, n)[j])]
                  /\ v = [j \in 0..k |-> Work(Bom!Level(i, n)[j])]
  OBVIOUS
<1>2. PICK S : S = 0..k
  OBVIOUS
<1>3. 0..(k + 1) = S \cup {k + 1} /\ k + 1 \notin S /\ IsFiniteSet(S)
  BY <1>2, FS_Interval
<1>4. \A j \in S \cup {k + 1} : w[j] = Work(Bom!Level(i, n)[j]) /\ w[j] \in Nat
  <2>1. \A j \in S \cup {k + 1} : j \in 0..(k + 1) /\ j \in 0..Cardinality(Goods)
    BY <1>2, BillFacts
  <2> QED
    BY <1>1, <2>1, LevelTypes, CostTypes
<1>5. Total(w, S \cup {k + 1}) = Total(w, S) + w[k + 1]
  BY <1>3, <1>4, TotalNext
<1>6. \A j \in S : w[j] = v[j]
  BY <1>1, <1>2, <1>4
<1>7. Total(w, S) = Total(v, S)
  BY <1>6, TotalCongruence
<1>8. Total(w, S) \in Nat
  BY <1>3, <1>4, TotalNatural
<1>9. Works(i, n, k + 1) = Total(w, S \cup {k + 1}) /\ Works(i, n, k) = Total(v, S)
  BY <1>1, <1>2, <1>3 DEF Works
<1> QED
  BY <1>4, <1>5, <1>7, <1>8, <1>9

(* The work on an item with a bill is the work on itself and on what its     *)
(* components need.                                                         *)
PartWorks(i, n, k) == [c \in Bom!Components(i) |-> Works(c, n * bills[i][c], k)]
PartWork(i, n, k) == [c \in Bom!Components(i) |-> Work(Parts(i, n, k)[c])]
PartCost(i, n, k) == [c \in Bom!Components(i) |-> Cost(Parts(i, n, k)[c])]

LEMMA WorkSplit ==
  ASSUME Billed, NEW i \in Bom!Made, NEW n \in Nat, NEW k \in Nat,
         k < Cardinality(Goods)
  PROVE  /\ Cost(Bom!Level(i, n)[k + 1]) = Total(PartCost(i, n, k), Bom!Components(i))
         /\ Work(Bom!Level(i, n)[k + 1]) = Total(PartWork(i, n, k), Bom!Components(i))
<1>1. PICK C, f, v : C = Bom!Components(i) /\ f = Parts(i, n, k) /\ v = Bom!Level(i, n)[k + 1]
  OBVIOUS
<1>2. k \in 0..Cardinality(Goods) /\ IsFiniteSet(C)
  BY <1>1, BillFacts, ComponentFacts
<1>3. \A c \in C : f[c] \in [Goods -> Nat]
  BY <1>1, <1>2, PartTypes
<1>4. \A g \in Goods : v[g] = Together(f, C, g)
  BY <1>1, LevelSplit
<1>5. /\ Cost(v) = Total([c \in C |-> Cost(f[c])], C)
      /\ Work(v) = Total([c \in C |-> Work(f[c])], C)
  BY <1>2, <1>3, <1>4, CostTogether
<1> QED
  BY <1>1, <1>5 DEF PartCost, PartWork

LEMMA WorksSplit ==
  ASSUME Billed, NEW i \in Bom!Made, NEW n \in Nat, NEW k \in Nat,
         k < Cardinality(Goods)
  PROVE  /\ \A c \in Bom!Components(i) : PartWorks(i, n, k)[c] \in Nat
         /\ Works(i, n, k + 1) = n * Labour(i) + Total(PartWorks(i, n, k), Bom!Components(i))
<1> DEFINE P == {j \in Nat : j < Cardinality(Goods) =>
                   Works(i, n, j + 1) = n * Labour(i)
                     + Total(PartWorks(i, n, j), Bom!Components(i))}
<1>1. IsFiniteSet(Bom!Components(i)) /\ i \in Goods /\ ~Bom!Raw(i) /\ n * Labour(i) \in Nat
  BY BillFacts, ComponentFacts, Products
<1>2. ASSUME NEW j \in Nat, j < Cardinality(Goods)
      PROVE  /\ \A c \in Bom!Components(i) : PartWorks(i, n, j)[c] \in Nat
             /\ \A c \in Bom!Components(i) : PartWorks(i, n, j)[c] = Works(c, n * bills[i][c], j)
  <2>1. \A c \in Bom!Components(i) : n * bills[i][c] \in Nat /\ c \in Goods
    BY PartTypes, BillFacts
  <2> QED
    BY <1>2, <2>1, WorksNext DEF PartWorks
<1>3. 0 \in P
  <2>1. SUFFICES ASSUME 0 < Cardinality(Goods)
                 PROVE  Works(i, n, 0 + 1) = n * Labour(i)
                          + Total(PartWorks(i, n, 0), Bom!Components(i))
    OBVIOUS
  <2>2. Works(i, n, 0 + 1) = Works(i, n, 0) + Work(Bom!Level(i, n)[0 + 1])
    BY <1>1, <2>1, WorksNext
  <2>3. Works(i, n, 0) = n * Labour(i)
    BY <1>1, WorksFirst
  <2>4. Work(Bom!Level(i, n)[0 + 1]) = Total(PartWork(i, n, 0), Bom!Components(i))
    BY <2>1, WorkSplit
  <2>5. \A c \in Bom!Components(i) : Work(Parts(i, n, 0)[c]) = PartWorks(i, n, 0)[c]
    <3>1. \A c \in Bom!Components(i) : n * bills[i][c] \in Nat /\ c \in Goods
      BY PartTypes, BillFacts
    <3>2. \A c \in Bom!Components(i) : Parts(i, n, 0)[c] = Only(c, n * bills[i][c])
      BY LevelDefined DEF Parts
    <3> QED
      BY <3>1, <3>2, WorksFirst DEF PartWorks
  <2>6. PartWork(i, n, 0) = PartWorks(i, n, 0)
    BY <2>5 DEF PartWork, PartWorks
  <2> QED
    BY <2>2, <2>3, <2>4, <2>6
<1>4. ASSUME NEW j \in Nat, j \in P
      PROVE  j + 1 \in P
  <2>1. CASE j + 1 < Cardinality(Goods)
    <3>1. PICK C, old, new, more :
            /\ C = Bom!Components(i)
            /\ old = PartWorks(i, n, j)
            /\ new = PartWorks(i, n, j + 1)
            /\ more = PartWork(i, n, j + 1)
      OBVIOUS
    <3>2. j < Cardinality(Goods)
      BY <2>1, BillFacts
    <3>3. Works(i, n, j + 1) = n * Labour(i) + Total(old, C)
      BY <1>4, <3>1, <3>2
    <3>4. Works(i, n, (j + 1) + 1) = Works(i, n, j + 1) + Work(Bom!Level(i, n)[(j + 1) + 1])
      BY <1>1, <2>1, WorksNext
    <3>5. Work(Bom!Level(i, n)[(j + 1) + 1]) = Total(more, C)
      BY <2>1, <3>1, WorkSplit
    <3>6. ASSUME NEW c \in C
          PROVE  old[c] \in Nat /\ more[c] \in Nat /\ new[c] = old[c] + more[c]
      <4>1. PICK m \in Nat : m = n * bills[i][c] /\ c \in Goods
        BY <3>1, PartTypes, BillFacts
      <4>2. old[c] = Works(c, m, j) /\ new[c] = Works(c, m, j + 1) /\ old[c] \in Nat
        BY <1>2, <2>1, <3>1, <3>2, <4>1
      <4>3. more[c] = Work(Bom!Level(c, m)[j + 1])
        BY <3>1, <4>1 DEF PartWork, Parts
      <4>4. Work(Bom!Level(c, m)[j + 1]) \in Nat
        <5>1. j + 1 \in 0..Cardinality(Goods)
          BY <2>1, BillFacts
        <5> QED
          BY <4>1, <5>1, LevelTypes, CostTypes
      <4> QED
        BY <3>2, <4>1, <4>2, <4>3, <4>4, WorksNext
    <3>7. Total(new, C) = Total(old, C) + Total(more, C)
      BY <1>1, <3>1, <3>6, TotalPlus
    <3>8. Total(old, C) \in Nat /\ Total(more, C) \in Nat
      BY <1>1, <3>1, <3>6, TotalNatural
    <3>9. Works(i, n, (j + 1) + 1) = n * Labour(i) + Total(new, C)
      BY <1>1, <3>3, <3>4, <3>5, <3>7, <3>8
    <3> QED
      BY <3>1, <3>9
  <2>2. CASE ~(j + 1 < Cardinality(Goods))
    BY <2>2
  <2> QED
    BY <2>1, <2>2
<1>5. \A j \in Nat : j \in P
  <2> HIDE DEF P
  <2> QED
    BY <1>3, <1>4, ByNumbers
<1> QED
  BY <1>2, <1>5

(* An explosion that finds no loop agrees with the levels below k.          *)
Agrees(found, i, n, k) ==
  /\ Settled(Bom!Level(i, n)[k])
  /\ found.raw = Bom!Level(i, n)[k]
  /\ found.cost = Cost(Bom!Level(i, n)[k]) + Works(i, n, k)

LEMMA AloneAgrees ==
  ASSUME Billed, NEW i \in Goods, Bom!Raw(i), NEW n \in Nat,
         NEW k \in 0..Cardinality(Goods)
  PROVE  Agrees(Alone(i, n), i, n, k)
<1>1. Bom!Level(i, n)[k] = Only(i, n) /\ Settled(Bom!Level(i, n)[k])
  BY OnlySettled
<1>2. Cost(Only(i, n)) = n * Price(i) /\ n * Price(i) \in Nat
  <2>1. PICK w : w = [g \in Goods |-> Only(i, n)[g] * Price(g)]
    OBVIOUS
  <2>2. \A g \in Goods : w[g] = IF g = i THEN n * Price(i) ELSE 0
    <3>1. \A g \in Goods : Price(g) \in Nat /\ 0 * Price(g) = 0
      BY BillFacts
    <3> QED
      BY <2>1, <3>1 DEF Only
  <2>3. n * Price(i) \in Nat
    BY BillFacts, Products
  <2>4. w[i] = n * Price(i) /\ \A g \in Goods \ {i} : w[g] = 0
    BY <2>2
  <2>5. Total(w, Goods) = w[i]
    BY <2>3, <2>4, BillFacts, TotalOnly
  <2> QED
    BY <2>1, <2>3, <2>4, <2>5 DEF Cost
<1>3. Works(i, n, k) = 0
  <2>1. PICK w : w = [j \in 0..k |-> Work(Bom!Level(i, n)[j])]
    OBVIOUS
  <2>2. \A j \in 0..k : w[j] = 0
    <3>1. \A j \in 0..k : j \in 0..Cardinality(Goods)
      BY BillFacts
    <3>2. \A j \in 0..k : Bom!Level(i, n)[j] = Only(i, n)
      BY <3>1, OnlySettled
    <3>3. Work(Only(i, n)) = 0
      BY WorksFirst
    <3> QED
      BY <2>1, <3>2, <3>3
  <2>3. Total(w, 0..k) = 0
    BY <2>2, TotalZero
  <2> QED
    BY <2>1, <2>3 DEF Works
<1>4. Alone(i, n).raw = Only(i, n) /\ Alone(i, n).cost = n * Price(i)
  BY DEF Alone, Only
<1> QED
  BY <1>1, <1>2, <1>3, <1>4 DEF Agrees

LEMMA GatheredAgrees ==
  ASSUME Billed, NEW i \in Bom!Made, NEW n \in Nat, NEW k \in Nat,
         k < Cardinality(Goods), NEW parts,
         \A c \in Bom!Components(i) : ~parts[c].loops,
         \A c \in Bom!Components(i) : Agrees(parts[c], c, n * bills[i][c], k)
  PROVE  /\ ~Gathered(i, n, parts).loops
         /\ Agrees(Gathered(i, n, parts), i, n, k + 1)
<1>1. PICK C, f, v, found :
        /\ C = Bom!Components(i) /\ f = Parts(i, n, k)
        /\ v = Bom!Level(i, n)[k + 1] /\ found = Gathered(i, n, parts)
  OBVIOUS
<1>2. /\ k \in 0..Cardinality(Goods) /\ k + 1 \in 0..Cardinality(Goods) /\ i \in Goods
      /\ IsFiniteSet(C)
  BY <1>1, BillFacts, ComponentFacts
<1>3. /\ ~found.loops
      /\ found.raw = [h \in Goods |-> Total([c \in C |-> parts[c].raw[h]], C)]
      /\ found.cost = Total([c \in C |-> parts[c].cost], C) + n * Labour(i)
  BY <1>1 DEF Gathered
<1>4. \A c \in C : f[c] \in [Goods -> Nat] /\ f[c] = Bom!Level(c, n * bills[i][c])[k]
  BY <1>1, <1>2, PartTypes
<1>5. \A c \in C : /\ Settled(f[c]) /\ parts[c].raw = f[c]
                   /\ parts[c].cost = Cost(f[c]) + PartWorks(i, n, k)[c]
  BY <1>1, <1>4 DEF Agrees, PartWorks
<1>6. \A h \in Goods : v[h] = Total([c \in C |-> f[c][h]], C)
  BY <1>1, LevelSplit DEF Together
<1>7. Settled(v)
  <2>1. SUFFICES ASSUME NEW h \in Goods, ~Bom!Raw(h)
                 PROVE  v[h] = 0
    BY DEF Settled
  <2>2. \A c \in C : f[c][h] = 0
    BY <1>4, <1>5, <2>1 DEF Settled
  <2>3. \A c \in C : [x \in C |-> f[x][h]][c] = 0
    BY <2>2
  <2>4. Total([c \in C |-> f[c][h]], C) = 0
    BY <2>3, TotalZero
  <2> QED
    BY <1>6, <2>4
<1>8. found.raw = v
  <2>1. v \in [Goods -> Nat]
    BY <1>1, <1>2, LevelTypes
  <2>2. \A h \in Goods : [c \in C |-> parts[c].raw[h]] = [c \in C |-> f[c][h]]
    BY <1>5
  <2>3. \A h \in Goods : v[h] = Total([c \in C |-> parts[c].raw[h]], C)
    BY <1>6, <2>2
  <2> QED
    BY <1>3, <2>1, <2>3
<1>9. found.cost = Cost(v) + Works(i, n, k + 1)
  <2>1. PICK all, cost, works : /\ all = [c \in C |-> parts[c].cost]
                                /\ cost = PartCost(i, n, k) /\ works = PartWorks(i, n, k)
    OBVIOUS
  <2>2. \A c \in C : works[c] \in Nat
    BY <1>1, <2>1, WorksSplit
  <2>3. \A c \in C : cost[c] = Cost(f[c]) /\ cost[c] \in Nat
    BY <1>1, <1>4, <2>1, CostTypes DEF PartCost
  <2>4. \A c \in C : all[c] = cost[c] + works[c]
    BY <1>5, <2>1, <2>3
  <2>5. Total(all, C) = Total(cost, C) + Total(works, C)
    BY <1>2, <2>2, <2>3, <2>4, TotalPlus
  <2>6. Total(cost, C) \in Nat /\ Total(works, C) \in Nat /\ n * Labour(i) \in Nat
    BY <1>2, <2>2, <2>3, TotalNatural, BillFacts, Products
  <2>7. Cost(v) = Total(cost, C)
    BY <1>1, <2>1, WorkSplit
  <2>8. Works(i, n, k + 1) = n * Labour(i) + Total(works, C)
    BY <1>1, <2>1, WorksSplit
  <2>9. found.cost = Total(all, C) + n * Labour(i)
    BY <1>3, <2>1
  <2> QED
    BY <2>5, <2>6, <2>7, <2>8, <2>9
<1> QED
  BY <1>1, <1>3, <1>7, <1>8, <1>9 DEF Agrees

(* So it does on every level when as many items as there may be more have    *)
(* been seen to be its parts.                                               *)
LEMMA ExplosionAgrees ==
  ASSUME Billed, NEW above \in SUBSET Goods, NEW i \in Goods, NEW n \in Nat,
         ~Bom!Explode[above][i][n].loops, NEW k \in 0..Cardinality(Goods),
         Cardinality(Goods \ above) <= k
  PROVE  Agrees(Bom!Explode[above][i][n], i, n, k)
<1> DEFINE P == {m \in Nat : \A a \in SUBSET Goods : Cardinality(Goods \ a) <= m =>
                   \A j \in Goods : \A q \in Nat : ~Bom!Explode[a][j][q].loops =>
                     (m <= Cardinality(Goods) => Agrees(Bom!Explode[a][j][q], j, q, m))}
<1>0. \A a \in SUBSET Goods : IsFiniteSet(Goods \ a) /\ Cardinality(Goods \ a) \in Nat
  BY BillFacts, FS_Difference, FS_CardinalityType
<1>1. ASSUME NEW m \in Nat, NEW a \in SUBSET Goods, Cardinality(Goods \ a) <= m,
             NEW j \in Goods, NEW q \in Nat, ~Bom!Explode[a][j][q].loops,
             m <= Cardinality(Goods),
             m # 0 => m - 1 \in P
      PROVE  Agrees(Bom!Explode[a][j][q], j, q, m)
  <2> HIDE DEF P
  <2>1. Bom!Explode[a][j][q] = Once(Bom!Explode, a, j, q)
    BY ExplodeDefined
  <2>2. j \notin a
    <3>1. Bom!Loop.loops
      BY DEF Bom!Loop
    <3> QED
      BY <1>1, <2>1, <3>1 DEF Once
  <2>3. m # 0
    <3>1. SUFFICES ASSUME m = 0
                   PROVE  FALSE
      OBVIOUS
    <3>2. Cardinality(Goods \ a) = 0
      BY <1>0, <1>1, <3>1
    <3>3. Goods \ a = {}
      BY <1>0, <3>2, FS_EmptySet
    <3> QED
      BY <2>2, <3>3
  <2>4. CASE Bom!Raw(j)
    <3>1. Bom!Explode[a][j][q] = Alone(j, q)
      BY <2>1, <2>2, <2>4 DEF Once
    <3>2. m \in 0..Cardinality(Goods)
      BY <1>1, BillFacts
    <3> QED
      BY <2>4, <3>1, <3>2, AloneAgrees
  <2>5. CASE ~Bom!Raw(j)
    <3>1. j \in Bom!Made
      BY <2>5, BillFacts
    <3>2. PICK k1 \in Nat : m = k1 + 1 /\ k1 = m - 1
      <4>1. m - 1 \in Nat /\ m = (m - 1) + 1
        BY <2>3
      <4> QED
        BY <4>1
    <3>3. PICK b : b = a \cup {j}
      OBVIOUS
    <3>4. b \in SUBSET Goods /\ Cardinality(Goods \ b) <= k1
      <4>1. (Goods \ a) \ {j} = Goods \ b /\ j \in Goods \ a /\ b \in SUBSET Goods
        BY <2>2, <3>3
      <4>2. Cardinality(Goods \ b) = Cardinality(Goods \ a) - 1
        BY <1>0, <4>1, FS_RemoveElement
      <4>3. PICK x \in Nat : x = Cardinality(Goods \ a)
        BY <1>0
      <4>4. x <= m
        BY <1>1, <4>3
      <4> QED
        BY <3>2, <4>1, <4>2, <4>3, <4>4
    <3>5. PICK parts : parts = Below(Bom!Explode, a, j, q)
      OBVIOUS
    <3>6. Bom!Explode[a][j][q] = Gathered(j, q, parts)
      BY <2>1, <2>2, <2>5, <3>5 DEF Once
    <3>7. \A c \in Bom!Components(j) : ~parts[c].loops
      <4>1. Bom!Loop.loops
        BY DEF Bom!Loop
      <4> QED
        BY <1>1, <3>6, <4>1 DEF Gathered
    <3>8. \A c \in Bom!Components(j) : parts[c] = Bom!Explode[b][c][q * bills[j][c]]
      BY <3>3, <3>5 DEF Below
    <3>9. \A c \in Bom!Components(j) : Agrees(parts[c], c, q * bills[j][c], k1)
      <4>1. \A c \in Bom!Components(j) : q * bills[j][c] \in Nat /\ c \in Goods
        BY <3>1, PartTypes, BillFacts
      <4>2. k1 \in P /\ k1 <= Cardinality(Goods)
        BY <1>1, <2>3, <3>2, BillFacts
      <4>3. \A x \in Goods : \A y \in Nat : ~Bom!Explode[b][x][y].loops =>
              Agrees(Bom!Explode[b][x][y], x, y, k1)
        BY <3>4, <4>2 DEF P
      <4> QED
        BY <3>7, <3>8, <4>1, <4>3
    <3>10. k1 < Cardinality(Goods)
      BY <1>1, <3>2, BillFacts
    <3>11. Agrees(Gathered(j, q, parts), j, q, k1 + 1)
      BY <3>1, <3>7, <3>9, <3>10, GatheredAgrees
    <3> QED
      BY <3>2, <3>6, <3>11
  <2> QED
    BY <2>4, <2>5
<1>2. 0 \in P
  BY <1>1
<1>3. ASSUME NEW m \in Nat, m \in P
      PROVE  m + 1 \in P
  <2>1. m + 1 \in Nat /\ (m + 1) - 1 = m
    OBVIOUS
  <2>2. (m + 1) - 1 \in P
    BY <1>3, <2>1
  <2>3. \A a \in SUBSET Goods : Cardinality(Goods \ a) <= m + 1 =>
          \A j \in Goods : \A q \in Nat : ~Bom!Explode[a][j][q].loops =>
            (m + 1 <= Cardinality(Goods) => Agrees(Bom!Explode[a][j][q], j, q, m + 1))
    <3> HIDE DEF P
    <3> QED
      BY <1>1, <2>1, <2>2
  <2> QED
    BY <2>1, <2>3
<1>4. k \in P
  <2>1. k \in Nat
    OBVIOUS
  <2> HIDE DEF P
  <2> QED
    BY <1>2, <1>3, <2>1, ByNumbers
<1> QED
  BY <1>4, BillFacts

(* Whether what an item is made of comes to an end k levels below it.       *)
Ends(i, k) == Settled(Bom!Level(i, 1)[k])

LEMMA EndsForAny ==
  ASSUME Billed, NEW i \in Goods, NEW n \in Nat, n # 0,
         NEW k \in 0..Cardinality(Goods)
  PROVE  Settled(Bom!Level(i, n)[k]) <=> Ends(i, k)
<1>1. ASSUME NEW h \in Goods
      PROVE  Bom!Level(i, n)[k][h] > 0 <=> Bom!Level(i, 1)[k][h] > 0
  <2>1. PICK x \in Nat : x = Bom!Level(i, 1)[k][h]
    BY LevelTypes
  <2>2. Bom!Level(i, n)[k][h] = n * x
    BY <2>1, LevelTimes
  <2>3. n * x > 0 <=> x > 0
    OBVIOUS
  <2> QED
    BY <2>1, <2>2, <2>3
<1> QED
  BY <1>1 DEF Ends, Settled

LEMMA EndsRemain ==
  ASSUME Billed, NEW i \in Goods, NEW k \in Nat, k < Cardinality(Goods), Ends(i, k)
  PROVE  Ends(i, k + 1)
<1>1. 1 \in Nat
  OBVIOUS
<1> QED
  BY <1>1, SettledRemains DEF Ends

(* What ends below an item ends one level earlier below its components.     *)
LEMMA EndsBelow ==
  ASSUME Billed, NEW i \in Bom!Made, NEW k \in Nat, k < Cardinality(Goods),
         Ends(i, k + 1), NEW c \in Bom!Components(i)
  PROVE  Ends(c, k)
<1>1. PICK C, f, b : C = Bom!Components(i) /\ f = Parts(i, 1, k) /\ b = bills[i][c]
  OBVIOUS
<1>2. /\ k \in 0..Cardinality(Goods) /\ IsFiniteSet(C) /\ b \in Nat /\ b # 0 /\ c \in Goods
      /\ c \in C /\ 1 \in Nat
  BY <1>1, BillFacts, ComponentFacts
<1>3. \A x \in C : f[x] \in [Goods -> Nat]
  BY <1>1, <1>2, PartTypes
<1>4. f[c] = Bom!Level(c, b)[k]
  <2>1. f[c] = Bom!Level(c, 1 * b)[k]
    BY <1>1 DEF Parts
  <2>2. 1 * b = b
    BY <1>2
  <2> QED
    BY <2>1, <2>2
<1>5. ASSUME NEW h \in Goods, f[c][h] > 0
      PROVE  Bom!Raw(h)
  <2>1. PICK e : e = [x \in C |-> f[x][h]]
    OBVIOUS
  <2>2. \A x \in C : e[x] \in Nat
    BY <1>3, <2>1
  <2>3. e[c] <= Total(e, C) /\ e[c] = f[c][h] /\ Total(e, C) \in Nat
    BY <1>2, <2>1, <2>2, TotalRow, TotalNatural
  <2>4. Bom!Level(i, 1)[k + 1][h] = Total(e, C)
    <3>1. Bom!Level(i, 1)[k + 1][h] = Together(f, C, h)
      BY <1>1, <1>2, LevelSplit
    <3> QED
      BY <2>1, <3>1 DEF Together
  <2>5. e[c] \in Nat
    BY <1>2, <2>2
  <2>6. Bom!Level(i, 1)[k + 1][h] > 0
    BY <1>5, <2>3, <2>4, <2>5
  <2> QED
    BY <2>6 DEF Ends, Settled
<1>6. Settled(Bom!Level(c, b)[k])
  BY <1>4, <1>5 DEF Settled
<1> QED
  BY <1>2, <1>6, EndsForAny

(* An explosion finds no loop when what its item is made of ends earlier     *)
(* than that of the items above it.                                         *)
LEMMA EndsNoLoop ==
  ASSUME Billed, NEW k \in 0..Cardinality(Goods),
         NEW above \in SUBSET Goods, NEW i \in Goods, NEW n \in Nat, n # 0,
         Ends(i, k), \A j \in above : ~Ends(j, k)
  PROVE  ~Bom!Explode[above][i][n].loops
<1> DEFINE P == {m \in Nat : m <= Cardinality(Goods) =>
                   \A a \in SUBSET Goods : \A j \in Goods :
                     Ends(j, m) /\ (\A x \in a : ~Ends(x, m)) =>
                       \A q \in Nat : q # 0 => ~Bom!Explode[a][j][q].loops}
<1>1. ASSUME NEW a \in SUBSET Goods, NEW j \in Goods, j \notin a, Bom!Raw(j), NEW q \in Nat
      PROVE  ~Bom!Explode[a][j][q].loops
  <2>1. Bom!Explode[a][j][q] = Alone(j, q)
    BY <1>1, ExplodeDefined DEF Once
  <2> QED
    BY <2>1 DEF Alone
<1>2. 0 \in P
  <2>1. ASSUME NEW a \in SUBSET Goods, NEW j \in Goods, Ends(j, 0), \A x \in a : ~Ends(x, 0),
               NEW q \in Nat
        PROVE  ~Bom!Explode[a][j][q].loops
    <3>1. Bom!Level(j, 1)[0] = Only(j, 1)
      BY LevelDefined
    <3>2. Only(j, 1)[j] = 1
      BY DEF Only
    <3>3. Bom!Raw(j)
      BY <2>1, <3>1, <3>2 DEF Ends, Settled
    <3>4. j \notin a
      BY <2>1
    <3> QED
      BY <1>1, <3>3, <3>4
  <2> QED
    BY <2>1
<1>3. ASSUME NEW m \in Nat, m \in P
      PROVE  m + 1 \in P
  <2>1. ASSUME m < Cardinality(Goods), NEW a \in SUBSET Goods, NEW j \in Goods,
               Ends(j, m + 1), \A x \in a : ~Ends(x, m + 1), NEW q \in Nat, q # 0
        PROVE  ~Bom!Explode[a][j][q].loops
    <3>1. j \notin a
      BY <2>1
    <3>2. \A x \in a : ~Ends(x, m)
      BY <2>1, EndsRemain
    <3>3. CASE Ends(j, m)
      BY <1>3, <2>1, <3>2, <3>3, BillFacts
    <3>4. CASE ~Ends(j, m) /\ Bom!Raw(j)
      BY <1>1, <3>1, <3>4
    <3>5. CASE ~Ends(j, m) /\ ~Bom!Raw(j)
      <4>1. j \in Bom!Made
        BY <3>5, BillFacts
      <4>2. PICK b : b = a \cup {j}
        OBVIOUS
      <4>3. b \in SUBSET Goods /\ \A x \in b : ~Ends(x, m)
        BY <3>2, <3>5, <4>2
      <4>4. \A c \in Bom!Components(j) : c \in Goods /\ Ends(c, m)
        BY <2>1, <4>1, EndsBelow, ComponentFacts
      <4>5. \A c \in Bom!Components(j) : q * bills[j][c] \in Nat /\ q * bills[j][c] # 0
        <5>1. \A x, y \in Nat : x # 0 /\ y # 0 => x * y \in Nat /\ x * y # 0
          OBVIOUS
        <5>2. \A c \in Bom!Components(j) : bills[j][c] \in Nat /\ bills[j][c] # 0
          BY <4>1, ComponentFacts
        <5> QED
          BY <2>1, <5>1, <5>2
      <4>6. \A c \in Bom!Components(j) : ~Bom!Explode[b][c][q * bills[j][c]].loops
        <5>1. m <= Cardinality(Goods)
          BY <2>1, BillFacts
        <5>2. \A c \in Goods : Ends(c, m) =>
                \A z \in Nat : z # 0 => ~Bom!Explode[b][c][z].loops
          BY <1>3, <4>3, <5>1
        <5> QED
          BY <4>4, <4>5, <5>2
      <4>7. PICK parts : parts = Below(Bom!Explode, a, j, q)
        OBVIOUS
      <4>8. \A c \in Bom!Components(j) : parts[c] = Bom!Explode[b][c][q * bills[j][c]]
        BY <4>2, <4>7 DEF Below
      <4>9. Bom!Explode[a][j][q] = Gathered(j, q, parts)
        BY <3>1, <3>5, <4>7, ExplodeDefined DEF Once
      <4> QED
        BY <4>6, <4>8, <4>9 DEF Gathered
    <3> QED
      BY <3>3, <3>4, <3>5
  <2>2. m + 1 <= Cardinality(Goods) => m < Cardinality(Goods)
    BY BillFacts
  <2> QED
    BY <2>1, <2>2
<1>4. k \in P
  <2>1. k \in Nat
    OBVIOUS
  <2> HIDE DEF P
  <2> QED
    BY <1>2, <1>3, <2>1, ByNumbers
<1> QED
  BY <1>4, BillFacts

(* The property, for any number of pieces. *)
LEMMA EveryExplosion ==
  ASSUME Billed, NEW i \in Goods, NEW n \in Nat, n # 0
  PROVE  Bom!AddsUp(i, n)
<1>1. PICK last \in Nat : last = Cardinality(Goods)
  BY BillFacts
<1>2. PICK found : found = Bom!Explode[{}][i][n]
  OBVIOUS
<1>3. {} \in SUBSET Goods /\ last \in 0..Cardinality(Goods) /\ Cardinality(Goods \ {}) <= last
  <2>1. Goods \ {} = Goods
    OBVIOUS
  <2> QED
    BY <1>1, <2>1
<1>4. ~found.loops => Agrees(found, i, n, last)
  BY <1>2, <1>3, ExplosionAgrees
<1>5. Settled(Bom!Level(i, n)[last]) => ~found.loops
  BY <1>2, <1>3, EndsForAny, EndsNoLoop
<1>6. found.loops \in BOOLEAN
  <2>1. found = Once(Bom!Explode, {}, i, n)
    BY <1>2, <1>3, ExplodeDefined
  <2> QED
    BY <2>1 DEF Once, Bom!Loop, Alone, Gathered
<1>7. Settled(Bom!Level(i, n)[last]) => Agrees(found, i, n, last)
  BY <1>4, <1>5
<1>8. found.loops <=> ~Settled(Bom!Level(i, n)[last])
  BY <1>4, <1>5, <1>6 DEF Agrees
<1>9. \A f, S : Bom!Total(f, S) = Total(f, S)
  BY DEF Bom!Total, Bom!Units, Bom!Cardinality, Total, Units, Cardinality
<1>10. Bom!Cardinality(Goods) = last
  BY <1>1 DEF Bom!Cardinality, Cardinality
<1>11. PICK need, works :
         /\ need = Bom!Level(i, n)
         /\ works = [k \in 0..last |->
              Bom!Total([g \in Bom!Made |-> need[k][g] * Labour(g)], Bom!Made)]
  OBVIOUS
<1>12. Bom!AddsUp(i, n) <=>
         /\ found.loops <=> ~Settled(need[last])
         /\ Settled(need[last]) =>
              /\ found.raw = need[last]
              /\ found.cost = Bom!Total([g \in Goods |-> need[last][g] * Price(g)], Goods)
                                + Bom!Total(works, 0..last)
  BY <1>2, <1>10, <1>11 DEF Bom!AddsUp, Settled
<1>13. Bom!Total([g \in Goods |-> need[last][g] * Price(g)], Goods) = Cost(need[last])
  BY <1>9 DEF Cost
<1>14. Bom!Total(works, 0..last) = Works(i, n, last)
  <2>1. works = [k \in 0..last |-> Work(need[k])]
    BY <1>9, <1>11 DEF Work
  <2> QED
    BY <1>9, <1>11, <2>1 DEF Works
<1> QED
  BY <1>7, <1>8, <1>11, <1>12, <1>13, <1>14 DEF Agrees

(* A bill that is saved is a bill. *)
LEMMA BillsStay ==
  ASSUME Billed, [Bom!BillsNext]_bills
  PROVE  Billed'
BY DEF Billed, Bom!BillsNext, Bom!SaveBill

-----------------------------------------------------------------------------
(* The ledgers and the bills side by side.  What another part of a behaviour *)
(* runs leaves a ledger alone.                                               *)
LedgersInv ==
  /\ SettlementsInv
  /\ part = "stock" => StockInv
  /\ part = "signup" => SignupInv
  /\ part = "bom" => Billed

LEMMA LedgersInvInit ==
  ASSUME LedgersInit
  PROVE  LedgersInv
<1>1. SettlementsInv
  BY TypedInit, MatchInit, SettledInit DEF SettlementsInv, LedgersInit
<1>2. StockInv
  BY StockAssumption, StockInvInit DEF LedgersInit
<1>3. part = "signup" => SignupInv
  BY SignupAssumption, SignupInvInit DEF LedgersInit
<1>4. part = "bom" => Billed
  BY DEF LedgersInit, Bom!BillsInit, Billed
<1> QED
  BY <1>1, <1>2, <1>3, <1>4 DEF LedgersInv

LEMMA LedgersStep ==
  ASSUME [LedgersNext]_allVars
  PROVE  /\ part' = part /\ [Next]_vars
         /\ part = "stock" => [Stock!LedgerNext]_Stock!ledgerVars
         /\ part = "signup" => [Signup!SignupNext]_signupVars
         /\ part = "bom" => [Bom!BillsNext]_bills
         /\ ~(part = "stock") => UNCHANGED ledgerVars
<1>1. CASE UNCHANGED allVars
  BY <1>1 DEF allVars, ledgerVars, signupVars, Stock!ledgerVars
<1>2. CASE LedgersNext
  BY <1>2 DEF LedgersNext
<1> QED
  BY <1>1, <1>2

LEMMA LedgersInvStep ==
  ASSUME LedgersInv, [LedgersNext]_allVars
  PROVE  LedgersInv'
<1>1. SettlementsInv'
  BY LedgersStep, TypedStep, MatchStep, SettledStep DEF LedgersInv, SettlementsInv
<1>2. (part = "stock" => StockInv)'
  BY LedgersStep, StockAssumption, StockInvStep DEF LedgersInv
<1>3. (part = "signup" => SignupInv)'
  BY LedgersStep, SignupAssumption, SignupInvStep DEF LedgersInv
<1>4. (part = "bom" => Billed)'
  BY LedgersStep, BillsStay DEF LedgersInv
<1> QED
  BY <1>1, <1>2, <1>3, <1>4 DEF LedgersInv

(* Every reachable state satisfies the invariants of the ledgers and bills. *)
THEOREM LedgersInvariance == LedgersSpec => []LedgersInv
<1>1. LedgersInit => LedgersInv
  BY LedgersInvInit
<1>2. LedgersInv /\ [LedgersNext]_allVars => LedgersInv'
  BY LedgersInvStep
<1>3. QED
  BY <1>1, <1>2, PTL DEF LedgersSpec

(* Nothing is settled twice.  The books that are kept of one stock agree:    *)
(* what orders have reserved is what their reservations hold, and it is     *)
(* there; the bins add up to the balance; and the balance is what the       *)
(* movements made that nobody undid, however reversals are reversed.  And a  *)
(* paid order founds at most one company, whoever is welcomed has one, and  *)
(* whoever paid is refused only for the reasons of the code, however         *)
(* requests overlap and die.                                                *)
THEOREM LedgersBooksAgree == LedgersSpec => []BooksAgree
<1>1. StockInv => Stock!StockBooksAgree
  BY StockAssumption, ReversalsCancel DEF StockInv, Stock!StockBooksAgree
<1>2. SignupInv => Signup!PaidSignupHolds
  BY DEF SignupInv
<1>3. LedgersInv => BooksAgree
  BY <1>1, <1>2 DEF LedgersInv, SettlementsInv, BooksAgree
<1>4. QED
  BY <1>3, LedgersInvariance, PTL

(* The explosion of a bill of materials stops exactly at a loop; otherwise   *)
(* its materials and its cost are those of what every level gives way to.   *)
THEOREM LedgersExplosionAddsUp == LedgersSpec => []ExplosionAddsUp
<1>1. Billed => Bom!ExplosionAddsUp
  <2>1. \A n \in 1..2 : n \in Nat /\ n # 0
    OBVIOUS
  <2> QED
    BY <2>1, EveryExplosion DEF Bom!ExplosionAddsUp
<1>2. LedgersInv => ExplosionAddsUp
  BY <1>1 DEF LedgersInv, ExplosionAddsUp
<1>3. QED
  BY <1>2, LedgersInvariance, PTL

(* So it does for any number of pieces, of which the property names one and *)
(* two.                                                                     *)
THEOREM EveryExplosionAddsUp ==
  LedgersSpec => [](part = "bom" => \A i \in Goods : \A n \in Nat \ {0} : Bom!AddsUp(i, n))
<1>1. Billed => \A i \in Goods : \A n \in Nat \ {0} : Bom!AddsUp(i, n)
  BY EveryExplosion
<1>2. LedgersInv => (part = "bom" => \A i \in Goods : \A n \in Nat \ {0} : Bom!AddsUp(i, n))
  BY <1>1 DEF LedgersInv
<1>3. QED
  BY <1>2, LedgersInvariance, PTL

(* A posted count leaves exactly the stock that was counted, whatever moved *)
(* between its opening and its posting.                                     *)
THEOREM LedgersCountsSetStock == LedgersSpec => CountsSetStock
<1>1. LedgersInv /\ [LedgersNext]_allVars => [Stock!CountSetsStock]_ledgerVars
  BY LedgersStep, StockAssumption, CountsPost DEF LedgersInv
<1>2. QED
  BY <1>1, LedgersInvariance, PTL DEF LedgersSpec, CountsSetStock
=============================================================================
