SPECIFICATION CoreSpec
CONSTANTS
  Leads = {l1}
  Codes = {x1, x2}
  HandIds = {h1}
  Quotes = {y1, y2}
  Orders = {z1, z2}
  Advances = {a1, a2}
  Requests = {r1, r2}
  Amounts = {1}
  OrderTotal = 2
  MaxBalance = 2
  Documents = {d1}
  Rows = {x1, x2}
  Keys = {k1, k2, k3}
  Builders = {r1, r2}
  DrawingIds = {i1}
  DrawnDeals = {y1, y2}
  DrawnOrders = {z1, z2}
  Reviews = {r1, r2}
  Skus = {1, 2}
  Items = {0, 1, 2}
  Batches = {r1, r2}
  MaxScans = 2
  Sources = {w1, w2}
  MaxEdits = 3
  Copies = {c1, c2}
  MaxProducts = 2
  MaxWritten = 3
  SalesCodes = {s1}
  ErpCodes = {e1}
  OnTasks = {t1}
  OffTasks = {t2}
  FirstNumber = 4
  MaxOrders = 3
  Uses = {z1, z2}
  None = None
  NoLead = NoLead
  Gone = Gone
SYMMETRY Symmetry
CHECK_DEADLOCK FALSE
INVARIANTS
  SoldOnce
  BalanceExplained
  FilesDrawingsAndScansHold
  ListsAndSetupWhole
