CONSTANTS
  u1 = u1
  a1 = a1
  d1 = d1
  t1 = t1
  t2 = t2
  o1 = o1
  o2 = o2
  o3 = o3
  k1 = k1
  q1 = q1
  q2 = q2
  q3 = q3
  NoAdmin = NoAdmin
  Users = {u1}
  Admins = {}
  Products = {1, 2}
  CartRows = {1, 2}
  Addresses = {d1}
  Tokens = {t1, t2}
  OrderIds = {o1, o2}
  AdjustKeys = {}
  Bonuses = {2}
  Deltas = {}
  Prices = {1}
  MaxStock = 2
  MaxQty = 2
  MaxVersion = 2
  MaxInt = 7
  Funds = 3
  Stock = 2
  MaxSupply = 2
  Rows = {1, 2}
  Procs = {q1, q2}
  CreateCalls <- DoubleSubmit
  ApproveCalls <- None
SPECIFICATION MCFairSpec
CONSTRAINT Bounded
INVARIANTS TxTypeOK NoCyclicWait
PROPERTIES DuplicateNeverRefused ImplementsMall EveryCallAnswered
CHECK_DEADLOCK FALSE
