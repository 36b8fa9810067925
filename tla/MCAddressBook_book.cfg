CONSTANTS
  x1 = x1
  x2 = x2
  x3 = x3
  q1 = q1
  q2 = q2
  q3 = q3
  Addresses = {x1, x2, x3}
  Entered = {x1, x2}
  Attempts = 2
  Procs = {q1, q2, q3}
  CreateCalls <- NewDefault
  EditCalls <- Edits
  DeleteCalls <- Deletions
  OrderCalls <- Orders
SPECIFICATION MCFairSpec
INVARIANT BookTypeOK
PROPERTIES ImplementsBook DefaultSurvives EveryCallAnswered
CHECK_DEADLOCK FALSE
