SPECIFICATION Spec
CONSTANTS
  Leads = {l1}
  Quotes = {q1, q2}
  Orders = {o1, o2}
  Imported = {q2}
  Jobs = {j1, j2}
  Invoices = {i1}
  MaxQty = 1
  MaxAmount = 2
  Amount <- MCAmount
  Progress <- MCEnds
  None = None
SYMMETRY RowSymmetry
CHECK_DEADLOCK FALSE
INVARIANTS
  CancelledIsInert
  QuoteConvertedOnce
PROPERTIES
  NothingGoesBack
  ImplementsFulfilment
