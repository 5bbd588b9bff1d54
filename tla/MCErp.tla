-------------------------------- MODULE MCErp --------------------------------
(***************************************************************************)
(* Instances of Documents, PayrollRuns, Leave, WorkOrders, Recurring,        *)
(* Upgrade and PrivateFiles.  They share no row that their properties speak *)
(* of: the run checks them side by side, one of them in each behaviour,      *)
(* which part says; the variables of the others are not used in it.         *)
(***************************************************************************)
EXTENDS Documents, TLC

CONSTANTS Months, Loans, Principals, Instalment, Salary, MaxEdits, MaxArchives,
          LastDate, PerRun, MaxByHand, RecurringTasks,
          Asked, Days, Feasts, Allowance, Attended, Clerks, Closed,
          Stages, MaxPlanned, MaxChanges,
          OldQuotes, Revisions,
          LastVersion, Readers, FileNames, Dates, DueDates, Runners, Recipients

VARIABLES
  part,
  run, attendance, staff, loan, edits,
  runReads, loanReads, settled, overwritten, \* of PayrollRuns
  today, template, expenses, task, byHand, \* of Recurring
  leaves, holidays, fixed, leaveReads, paidFor, \* of Leave
  job, stages, jobReads, closedAs, raced, \* of WorkOrders
  legacy, ordered, document, sale, migrated, upgrade, \* of Upgrade
  paper, archivist, content, rendered, reader, stale, \* of PrivateFiles
  day, schedule, execution, reports, mails, runner \* of PrivateFiles

archiveVars == <<runReads, loanReads, overwritten>>
payrollVars == <<run, attendance, staff, loan, edits, settled, archiveVars>>
recurringVars == <<today, template, expenses, task, byHand>>
leaveVars == <<leaves, holidays, fixed, leaveReads, paidFor>>
jobVars == <<job, stages, jobReads, closedAs, raced>>
upgradeVars == <<legacy, ordered, document, sale, migrated, upgrade>>
printVars == <<paper, archivist, content, rendered, reader, stale>>
reportVars == <<day, schedule, execution, reports, mails, runner>>
laterVars == <<upgradeVars, printVars, reportVars>>
erpVars == <<part, vars, payrollVars, recurringVars, leaveVars, jobVars, laterVars>>

(* Two years of two months, of two days and of one. *)
YearOfDay(d) == IF d <= 2 THEN 1 ELSE 2
MonthOfDay(d) == IF d = 1 THEN 1 ELSE d

Payroll == INSTANCE PayrollRuns
Repeated == INSTANCE Recurring
Left == INSTANCE Leave WITH Requests <- Asked, Dates <- Days, reads <- leaveReads,
                            YearOf <- YearOfDay, MonthOf <- MonthOfDay
Worked == INSTANCE WorkOrders WITH reads <- jobReads, MaxQty <- MaxPlanned, MaxVersion <- MaxChanges
Carried == INSTANCE Upgrade
Files == INSTANCE PrivateFiles

MCCreated == {"quotation", "sales_order", "purchase_order"}
MCInvoices == {"invoice"}

(* The variables of the parts that a behaviour does not run. *)
Unused(x) == x = None
NoPayroll == /\ Unused(run) /\ Unused(attendance) /\ Unused(staff) /\ Unused(loan)
             /\ Unused(edits) /\ Unused(runReads) /\ Unused(loanReads)
             /\ Unused(settled) /\ Unused(overwritten)
NoRecurring == /\ Unused(today) /\ Unused(template) /\ Unused(expenses)
               /\ Unused(task) /\ Unused(byHand)
NoLeave == /\ Unused(leaves) /\ Unused(holidays) /\ Unused(fixed)
           /\ Unused(leaveReads) /\ Unused(paidFor)
NoJob == Unused(job) /\ Unused(stages) /\ Unused(jobReads) /\ Unused(closedAs) /\ Unused(raced)
NoUpgrade == /\ Unused(legacy) /\ Unused(ordered) /\ Unused(document)
             /\ Unused(sale) /\ Unused(migrated) /\ Unused(upgrade)
NoPrints == /\ Unused(paper) /\ Unused(archivist) /\ Unused(content)
            /\ Unused(rendered) /\ Unused(reader) /\ Unused(stale)
NoReports == /\ Unused(day) /\ Unused(schedule) /\ Unused(execution)
             /\ Unused(reports) /\ Unused(mails) /\ Unused(runner)

ErpInit ==
  /\ part \in {"documents", "payroll", "recurring", "leave", "jobs", "upgrade", "prints", "reports"}
  /\ Init
  /\ IF part = "payroll" THEN Payroll!PayrollInit ELSE NoPayroll
  /\ IF part = "recurring" THEN Repeated!RecurringInit ELSE NoRecurring
  /\ IF part = "leave" THEN Left!LeaveInit ELSE NoLeave
  /\ IF part = "jobs" THEN Worked!WorkInit ELSE NoJob
  /\ IF part = "upgrade" THEN Carried!UpgradeInit ELSE NoUpgrade
  /\ IF part = "prints" THEN Files!PrintInit ELSE NoPrints
  /\ IF part = "reports" THEN Files!ReportInit ELSE NoReports

ErpNext ==
  /\ UNCHANGED part
  /\ \/ /\ part = "documents" /\ Next
        /\ UNCHANGED <<payrollVars, recurringVars, leaveVars, jobVars, laterVars>>
     \/ /\ part = "payroll" /\ Payroll!PayrollNext
        /\ UNCHANGED <<vars, recurringVars, leaveVars, jobVars, laterVars>>
     \/ /\ part = "recurring" /\ Repeated!RecurringNext
        /\ UNCHANGED <<vars, payrollVars, leaveVars, jobVars, laterVars>>
     \/ /\ part = "leave" /\ Left!LeaveNext
        /\ UNCHANGED <<vars, payrollVars, recurringVars, jobVars, laterVars>>
     \/ /\ part = "jobs" /\ Worked!WorkNext
        /\ UNCHANGED <<vars, payrollVars, recurringVars, leaveVars, laterVars>>
     \/ /\ part \in {"upgrade", "prints", "reports"}
        /\ UNCHANGED <<vars, payrollVars, recurringVars, leaveVars, jobVars>>
        /\ \/ /\ part = "upgrade" /\ Carried!UpgradeNext
              /\ UNCHANGED <<printVars, reportVars>>
           \/ /\ part = "prints" /\ Files!PrintNext
              /\ UNCHANGED <<upgradeVars, reportVars>>
           \/ /\ part = "reports" /\ Files!ReportNext
              /\ UNCHANGED <<upgradeVars, printVars>>

ASSUME PayrollAssumption == Payroll!PayrollConstants
ASSUME RecurringAssumption == Repeated!RecurringConstants
ASSUME LeaveAssumption == Left!LeaveConstants
ASSUME WorkAssumption == Worked!WorkConstants
ASSUME UpgradeAssumption == Carried!UpgradeConstants
ASSUME PrintAssumption == Files!PrintConstants
ASSUME ReportAssumption == Files!ReportConstants

ErpSpec == ErpInit /\ [][ErpNext]_erpVars

(* Documents are interchangeable. *)
Symmetry == Permutations(Docs)

(* The properties of the parts, for the runs to name. *)
DeductionsReachLoans == part = "payroll" => Payroll!DeductionsReachLoans
FinalizedAsOfNow == [][part = "payroll" => Payroll!FinalizesAsOfNow]_payrollVars
StaleRunsRecover == part = "payroll" => Payroll!StaleRunsRecover
OfficeRecordsHold ==
  /\ part = "recurring" => Repeated!NoDueDateSkipped
  /\ part = "leave" => Left!LeaveFitsPayroll
  /\ part = "jobs" => Worked!WorkReportedTruly
  /\ part = "upgrade" => Carried!HistoryCarriedOnce
  /\ part = "prints" => Files!PrintsAreCurrent
  /\ part = "reports" => Files!ReportedOnce

=============================================================================
