----------------------------- MODULE PayrollRuns ----------------------------
(***************************************************************************)
(* The payroll runs of the ERP (src/apps/erp/workforce.py and the payroll   *)
(* views of src/apps/erp/views.py): one run a month, calculated from        *)
(* attendance, employees and loans, approved, finalized and paid.  Every    *)
(* command runs under the lock of the company's row, but archiving a run or *)
(* a loan, which reads the row, may wait, and then writes all of it back.   *)
(*                                                                         *)
(* The run keeps a hash of all it was calculated from; here it keeps the    *)
(* inputs: the version of the month's attendance, the version of the        *)
(* employee's row and components, and the active loans.  One employee       *)
(* stands for the staff, and the salary is a constant.  A run keeps its     *)
(* month and branch.                                                        *)
(*                                                                         *)
(* Definitions commented "Mutant:" are mistakes for the properties to find. *)
(***************************************************************************)
EXTENDS Naturals, Quantities

CONSTANTS
  Months, Loans,
  Principals,   \* amounts that a loan may have
  Instalment,   \* EmployeeLoan.monthly_recovery
  Salary,       \* gross of a month
  MaxEdits,     \* bound on the edits of attendance, employees and loans
  MaxArchives,  \* bound on the archiving requests under way at once
  None

VARIABLES
  run,          \* the run of each month with its result, None before
  attendance,   \* version of each month's attendance and leave
  staff,        \* version of the employee
  loan,         \* the loans
  edits,        \* number of edits
  runReads,     \* what a request that archives a run has read of it
  loanReads,    \* the same of a loan
  settled,      \* history: months that have been finalized
  overwritten   \* history: loans whose archive undid a finalization's writing

archiveVars == <<runReads, loanReads, overwritten>>
payrollVars == <<run, attendance, staff, loan, edits, settled, archiveVars>>

LoanRows == [principal : Principals, recovered : Nat, version : Nat,
             status : {"active", "closed"}, archived : BOOLEAN]
Active(l) == loan[l] # None /\ loan[l].status = "active" /\ ~loan[l].archived
Inputs(m) == [attendance |-> attendance[m], staff |-> staff,
              loans |-> {<<l, loan[l]>> : l \in {x \in Loans : Active(x)}}]

Least(a, b) == IF a < b THEN a ELSE b

(* calculate_payroll: what each loan gives back.  A loan whose principal     *)
(* was set below what is recovered gives nothing.                           *)
Recovery == [l \in Loans |->
  IF ~Active(l) \/ loan[l].principal < loan[l].recovered THEN 0
  ELSE Least(Instalment, loan[l].principal - loan[l].recovered)]

PayrollInit ==
  /\ run = [m \in Months |-> None]
  /\ attendance = [m \in Months |-> 0]
  /\ staff = 0
  /\ loan = [l \in Loans |-> None]
  /\ edits = 0
  /\ runReads = [m \in Months |-> None]
  /\ loanReads = [l \in Loans |-> None]
  /\ settled = {} /\ overwritten = {}

(* What get_queryset shows of the runs. *)
Listed(m) == run[m] # None /\ ~run[m].archived

-----------------------------------------------------------------------------
CreateRun(m) ==
  /\ run[m] = None
  /\ run' = [run EXCEPT ![m] = [status |-> "draft", inputs |-> None, clear |-> FALSE,
                                recovery |-> [l \in Loans |-> 0], paid |-> 0, archived |-> FALSE]]
  /\ UNCHANGED <<attendance, staff, loan, edits, settled, archiveVars>>

(* Mutant: a run can be calculated whatever its status. *)
CalculateAnytime(m, clear) ==
  /\ Listed(m)
  /\ run' = [run EXCEPT ![m] = [@ EXCEPT !.status = "review", !.inputs = Inputs(m),
                                         !.clear = clear, !.recovery = Recovery]]
  /\ UNCHANGED <<attendance, staff, loan, edits, settled, archiveVars>>

(* calculate_payroll.  Without warnings, the result is clear to approve.    *)
Calculate(m, clear) ==
  /\ Listed(m) /\ run[m].status \in {"draft", "review"}
  /\ run' = [run EXCEPT ![m] = [@ EXCEPT !.status = "review", !.inputs = Inputs(m),
                                         !.clear = clear, !.recovery = Recovery]]
  /\ UNCHANGED <<attendance, staff, loan, edits, settled, archiveVars>>

(* PayrollViewSet.approve. *)
Approve(m) ==
  /\ Listed(m) /\ run[m].status = "review" /\ run[m].clear
  /\ run' = [run EXCEPT ![m].status = "approved"]
  /\ UNCHANGED <<attendance, staff, loan, edits, settled, archiveVars>>

Deducted(r) == {l \in Loans : r.recovery[l] > 0}

(* finalize_payroll records the cost, takes the loans' instalments and      *)
(* locks the month's attendance.                                            *)
Settle(m) ==
  LET r == run[m] IN
  /\ \A l \in Deducted(r) : loan[l].recovered + r.recovery[l] <= loan[l].principal
  /\ loan' = [l \in Loans |->
       IF l \notin Deducted(r) THEN loan[l]
       ELSE LET recovered == loan[l].recovered + r.recovery[l] IN
            [loan[l] EXCEPT !.recovered = recovered, !.version = @ + 1,
               !.status = IF recovered = loan[l].principal THEN "closed" ELSE @]]
  /\ run' = [run EXCEPT ![m].status = "finalized"]
  /\ settled' = settled \cup {m}
  /\ UNCHANGED <<attendance, staff, edits, archiveVars>>

(* Mutant: the inputs are not compared. *)
FinalizeStale(m) ==
  /\ Listed(m) /\ run[m].status = "approved"
  /\ Settle(m)

Finalize(m) ==
  /\ Listed(m) /\ run[m].status = "approved"
  /\ run[m].inputs = Inputs(m)
  /\ Settle(m)

Net(m) == Salary - Total(run[m].recovery, Loans)

(* PayrollViewSet.pay. *)
PaySalary(m, amount) ==
  /\ Listed(m) /\ run[m].status = "finalized"
  /\ run[m].paid + amount <= Net(m)
  /\ run' = [run EXCEPT ![m].paid = @ + amount]
  /\ UNCHANGED <<attendance, staff, loan, edits, settled, archiveVars>>

-----------------------------------------------------------------------------
(* Attendance, leave: refused by check_employee_period once the month's     *)
(* payroll is finalized.                                                    *)
EditAttendance(m) ==
  /\ ~(run[m] # None /\ run[m].status = "finalized")
  /\ edits < MaxEdits
  /\ attendance' = [attendance EXCEPT ![m] = @ + 1] /\ edits' = edits + 1
  /\ UNCHANGED <<run, staff, loan, settled, archiveVars>>

(* EmployeeViewSet, SalaryComponentViewSet: at any time. *)
EditStaff ==
  /\ edits < MaxEdits
  /\ staff' = staff + 1 /\ edits' = edits + 1
  /\ UNCHANGED <<run, attendance, loan, settled, archiveVars>>

(* LoanViewSet: a new loan, or a new principal of one there is. *)
AddLoan(l, principal) ==
  /\ loan[l] = None
  /\ loan' = [loan EXCEPT ![l] =
       [principal |-> principal, recovered |-> 0, version |-> 1, status |-> "active",
        archived |-> FALSE]]
  /\ UNCHANGED <<run, attendance, staff, edits, settled, archiveVars>>

EditLoan(l, principal) ==
  /\ loan[l] # None /\ ~loan[l].archived /\ principal # loan[l].principal
  /\ edits < MaxEdits
  /\ loan' = [loan EXCEPT ![l].principal = principal, ![l].version = @ + 1]
  /\ edits' = edits + 1
  /\ UNCHANGED <<run, attendance, staff, settled, archiveVars>>

(* ERPViewSet.destroy, which takes no lock: a run that is not approved or    *)
(* finalized when it is read, and any loan.  touch saves the whole row, as   *)
(* it was read, whatever was written in between; the results of a run are    *)
(* rows of their own.                                                       *)
Archiving == {m \in Months : runReads[m] # None} \cup {l \in Loans : loanReads[l] # None}

StartArchiveRun(m) ==
  /\ Listed(m) /\ run[m].status \in {"draft", "review"} /\ runReads[m] = None
  /\ Cardinality(Archiving) < MaxArchives
  /\ runReads' = [runReads EXCEPT ![m] = [status |-> run[m].status, inputs |-> run[m].inputs]]
  /\ UNCHANGED <<run, attendance, staff, loan, edits, settled, loanReads, overwritten>>

FinishArchiveRun(m) ==
  /\ runReads[m] # None
  /\ run' = [run EXCEPT ![m].status = runReads[m].status, ![m].inputs = runReads[m].inputs,
                        ![m].archived = TRUE]
  /\ runReads' = [runReads EXCEPT ![m] = None]
  /\ UNCHANGED <<attendance, staff, loan, edits, settled, loanReads, overwritten>>

StartArchiveLoan(l) ==
  /\ loan[l] # None /\ ~loan[l].archived /\ loanReads[l] = None
  /\ Cardinality(Archiving) < MaxArchives
  /\ loanReads' = [loanReads EXCEPT ![l] = loan[l]]
  /\ UNCHANGED <<run, attendance, staff, loan, edits, settled, runReads, overwritten>>

FinishArchiveLoan(l) ==
  /\ loanReads[l] # None
  /\ loan' = [loan EXCEPT ![l] = [loanReads[l] EXCEPT !.version = @ + 1, !.archived = TRUE]]
  /\ loanReads' = [loanReads EXCEPT ![l] = None]
  /\ overwritten' = overwritten \cup {x \in {l} : loan[x].recovered # loanReads[x].recovered}
  /\ UNCHANGED <<run, attendance, staff, edits, settled, runReads>>

PayrollNext ==
  \/ \E m \in Months : \/ CreateRun(m) \/ Approve(m) \/ Finalize(m) \/ EditAttendance(m)
                       \/ \E clear \in BOOLEAN : Calculate(m, clear)
                       \/ \E amount \in 1..Salary : PaySalary(m, amount)
                       \/ StartArchiveRun(m) \/ FinishArchiveRun(m)
  \/ EditStaff
  \/ \E l \in Loans : \/ StartArchiveLoan(l) \/ FinishArchiveLoan(l)
                      \/ \E principal \in Principals : AddLoan(l, principal) \/ EditLoan(l, principal)

PayrollSpec == PayrollInit /\ [][PayrollNext]_payrollVars

-----------------------------------------------------------------------------
(* The rows. *)
InputRows ==
  [attendance : 0..MaxEdits, staff : 0..MaxEdits, loans : SUBSET (Loans \X LoanRows)]
RunCopies == [status : {"draft", "review"}, inputs : InputRows \cup {None}]
RunRows ==
  [status : {"draft", "review", "approved", "finalized"}, inputs : InputRows \cup {None},
   clear : BOOLEAN, recovery : [Loans -> 0..Instalment], paid : 0..Salary,
   archived : BOOLEAN]

Finalized == {m \in Months : run[m] # None /\ run[m].status = "finalized"}

PayrollTypeOK ==
  /\ \A m \in Months : run[m] # None =>
       /\ run[m].status \in {"draft", "review", "approved", "finalized"}
       /\ run[m].recovery \in [Loans -> 0..Instalment] /\ run[m].paid \in 0..Salary
  /\ \A l \in Loans : loan[l] # None => loan[l] \in LoanRows
  /\ \A l \in Loans : loanReads[l] # None => loanReads[l] \in LoanRows
  /\ \A m \in Months : runReads[m] # None => runReads[m] \in RunCopies
  /\ settled \subseteq Months /\ overwritten \subseteq Loans
  /\ attendance \in [Months -> 0..MaxEdits] /\ staff \in 0..MaxEdits /\ edits \in 0..MaxEdits

(* What a loan has got back is what the months that were finalized deducted  *)
(* from the salary, unless the loan was archived by a request that had read *)
(* it before such a month took its instalment.  A finalized month stays so  *)
(* unless it was archived by a request that had read it before, and then no *)
(* run takes its place.  Each month's salary was paid at most once over.    *)
DeductionsReachLoans ==
  /\ PayrollTypeOK
  /\ \A l \in Loans \ overwritten : loan[l] # None =>
       loan[l].recovered = Total([m \in settled |-> run[m].recovery[l]], settled)
  /\ Finalized \subseteq settled
  /\ \A m \in settled \ Finalized : run[m].archived
  /\ \A m \in Months : run[m] # None /\ run[m].paid > 0 => m \in settled /\ run[m].paid <= Net(m)

(* What is finalized is what a calculation would give at that moment: a run *)
(* of another month that took the same loan in between, or any edit since   *)
(* the approval, keeps it from being finalized.                             *)
FinalizesAsOfNow ==
  \A m \in Months : m \notin Finalized /\ m \in Finalized' =>
    run[m].recovery = Recovery /\ run[m].inputs = Inputs(m)

FinalizedAsOfNow == [][FinalizesAsOfNow]_payrollVars

(* When its inputs changed after the approval, a run can be calculated      *)
(* again, as the message of finalize_payroll asks: "Attendance, employee    *)
(* details or salary inputs changed. Recalculate and review payroll."       *)
StaleRunsRecover ==
  \A m \in Months :
    run[m] # None /\ run[m].status = "approved" /\ run[m].inputs # Inputs(m) =>
      ENABLED \E clear \in BOOLEAN : Calculate(m, clear)

-----------------------------------------------------------------------------
(* What is assumed of the constants. *)
PayrollConstants ==
  /\ IsFiniteSet(Months) /\ IsFiniteSet(Loans) /\ Principals \subseteq Nat
  /\ Instalment \in Nat /\ Salary \in Nat /\ MaxEdits \in Nat
  /\ None \notin LoanRows \cup RunRows \cup RunCopies

=============================================================================
