CONSTANTS
  k1 = k1
  k2 = k2
  q1 = q1
  q2 = q2
  q3 = q3
  Connections = {k1, k2}
  Procs = {q1, q2, q3}
SPECIFICATION PoolSpec
INVARIANT DenialsRecorded
CHECK_DEADLOCK FALSE
