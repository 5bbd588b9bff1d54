SPECIFICATION StockSpec
CONSTANTS
  Leads = {}
  Quotes = {}
  Orders = {o1}
  Imported = {}
  Jobs = {j1, j2}
  Invoices = {}
  MaxQty = 2
  MaxAmount = 1
  Amount <- MCAmount
  Progress <- MCProgress
  None = None
  Items <- MCItems
  Purchases = {p1}
  ItemOf <- MCItemOf
  Opening <- MCOpening
  Recipes <- MCRecipes
  Parts = 2
  Entitlements <- MCBoth
  Adjustments <- MCLosses
  MaxReject = 1
  Deficit = 1
SYMMETRY JobSymmetry
CHECK_DEADLOCK FALSE
INVARIANTS
  LedgerWithinStock
PROPERTIES
  LedgerExplained
