CONSTANTS
  u1 = u1
  a1 = a1
  k1 = k1
  k2 = k2
  q1 = q1
  q2 = q2
  q3 = q3
  NoAdmin = NoAdmin
  Users = {u1}
  Admins = {a1}
  Products = {}
  CartRows = {}
  Addresses = {}
  Tokens = {}
  OrderIds = {}
  AdjustKeys = {k1, k2}
  Bonuses <- Steady
  Deltas <- MCDeltas
  Prices = {1}
  MaxStock = 0
  MaxQty = 1
  MaxVersion = 1
  MaxInt = 3
  Procs = {q1, q2, q3}
  LoginCalls <- Login1
  AdjustCalls <- Adjustments
SPECIFICATION MCFairSpec
INVARIANTS PointsTypeOK AnswersMatchCall
PROPERTIES PointsImplementMall EveryCallAnswered
CHECK_DEADLOCK FALSE
