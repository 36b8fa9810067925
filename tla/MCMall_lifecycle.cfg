CONSTANTS
  u1 = u1
  u2 = u2
  a1 = a1
  a2 = a2
  p1 = p1
  p2 = p2
  c1 = c1
  c2 = c2
  d1 = d1
  t1 = t1
  t2 = t2
  o1 = o1
  o2 = o2
  k1 = k1
  NoAdmin = NoAdmin
  Users = {u1}
  Admins = {a1, a2}
  Products = {p1}
  CartRows = {c1}
  Addresses = {d1}
  Tokens = {t1}
  OrderIds = {o1}
  AdjustKeys = {k1}
  Bonuses = {2}
  Deltas <- MCDeltas
  Prices = {1}
  MaxStock = 1
  MaxQty = 1
  MaxVersion = 2
  MaxInt = 3
  MaxFailures = 0
  MaxEdits = 1
SPECIFICATION MCSpec
CONSTRAINT Bounded
SYMMETRY Interchangeable
INVARIANTS TypeOK LedgerReconciles ChargedAndRefunded PointsConserved StampsMatchStatus StockConserved AuditAgrees
PROPERTY RejectRestores
CHECK_DEADLOCK FALSE
