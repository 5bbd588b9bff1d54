SPECIFICATION Spec
CONSTANTS
  Leads = {}
  Quotes = {}
  Orders = {o1, o2}
  Imported = {o2, i1}
  Jobs = {j1, j2, j3}
  Invoices = {i1, i2}
  MaxQty = 3
  MaxAmount = 1
  Amount <- MCAmount
  Progress <- MCProgress
  None = None
SYMMETRY RowSymmetry
CHECK_DEADLOCK FALSE
INVARIANTS
  NoPieceLost
  StatusTruthful
  NeverStuck
  BilledOnce
