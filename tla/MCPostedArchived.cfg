SPECIFICATION ErpSpec
CONSTANTS
  Docs = {d1, d2}
  Approvals = {a1}
  Payments = {p1}
  Created <- MCInvoices
  MaxEntered = 1
  MaxQty = 2
  Threshold = 2
  Steps = 1
  MaxVersion = 4
  Months = {m1, m2}
  Loans = {l1}
  Principals = {1, 2}
  Instalment = 2
  Salary = 2
  MaxEdits = 1
  MaxArchives = 1
  LastDate = 1
  PerRun = 2
  MaxByHand = 1
  RecurringTasks = {t1}
  Asked = {q1}
  Days = {1, 2}
  Feasts = {1}
  Allowance = 2
  Attended = {1}
  Clerks = {c1}
  Stages = {1}
  MaxPlanned = 1
  MaxChanges = 3
  OldQuotes = {o1}
  Revisions = {v1}
  LastVersion = 1
  Readers = {u1}
  FileNames = {f1}
  Dates = {1}
  DueDates = {1}
  Runners = {w1}
  Recipients = {n1}
  Closed = Closed
  None = None
SYMMETRY Symmetry
CHECK_DEADLOCK FALSE
INVARIANTS
  PostedNeverArchived
