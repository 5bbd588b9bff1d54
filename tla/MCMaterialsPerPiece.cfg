SPECIFICATION StockSpec
CONSTANTS
  Leads = {}
  Quotes = {}
  Orders = {o1}
  Imported = {}
  Jobs = {j1, j2}
  Invoices = {i1}
  MaxQty = 2
  MaxAmount = 1
  Amount <- MCAmount
  Progress <- MCProgress
  None = None
  Items <- MCItems
  Purchases = {p1}
  ItemOf <- MCItemOf
  Opening <- MCOpening
  Recipes <- MCRecipes
  Parts = 2
  Entitlements <- MCAlways
  Adjustments <- MCNoAdjustments
  MaxReject = 0
  Deficit = 2
SYMMETRY JobSymmetry
CHECK_DEADLOCK FALSE
INVARIANTS
  MaterialsPerPiece
