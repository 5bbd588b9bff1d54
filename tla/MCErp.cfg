SPECIFICATION ErpSpec
CONSTANTS
  Docs = {d1, d2, d3, d4}
  Approvals = {a1}
  Payments = {p1}
  Created <- MCCreated
  MaxEntered = 1
  MaxQty = 2
  Threshold = 2
  Steps = 1
  MaxVersion = 4
  Months = {m1, m2}
  Loans = {l1}
  Principals = {1, 2}
  Instalment = 2
  Salary = 2
  MaxEdits = 1
  MaxArchives = 1
  LastDate = 3
  PerRun = 2
  MaxByHand = 1
  RecurringTasks = {t1, t2}
  Asked = {q1, q2}
  Days = {1, 2, 3}
  Feasts = {1}
  Allowance = 2
  Attended = {1}
  Clerks = {c1}
  Stages = {1, 2}
  MaxPlanned = 2
  MaxChanges = 5
  OldQuotes = {o1, o2}
  Revisions = {v1}
  LastVersion = 3
  Readers = {u1, u2}
  FileNames = {f1, f2}
  Dates = {1, 2}
  DueDates = {1, 2}
  Runners = {w1, w2}
  Recipients = {n1}
  Closed = Closed
  None = None
SYMMETRY Symmetry
CHECK_DEADLOCK FALSE
INVARIANTS
  LinesNotOverdrawn
  PostedAsApproved
  InvoicesAddUp
  DeductionsReachLoans
  
PROPERTIES
  FinalizedAsOfNow
