SPECIFICATION LedgersSpec
CONSTANTS
  Expenses = {x1, x2}
  Payouts = {p1, p2, p3}
  Runs = {r1, r2}
  Employees = {w1}
  Periods = {m1, m2}
  MaxAmount = 2
  Balances = {x1, x2}
  Bins = {n1, n2}
  Default = n1
  Orders = {o1}
  Reservations = {v1}
  Counts = {c1}
  Opening = 1
  MaxHand = 2
  MaxMoves = 3
  OrderIds = {d1}
  Proofs = {x1, x2}
  MaxOthers = 1
  First = e1
  Second = e2
  Third = e3
  Home = f1
  Office = f2
  Goods = {g1, g2, g3}
  MaxPer = 2
  MaxParts = 3
  Dear = g1
  Price <- MCPrice
  Labour <- MCLabour
  None = None
SYMMETRY Symmetry
CHECK_DEADLOCK FALSE
INVARIANTS
  StatementReconciles
  BooksAgree
  ExplosionAddsUp
PROPERTIES
  CountsSetStock
