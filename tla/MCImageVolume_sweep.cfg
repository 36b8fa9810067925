CONSTANTS
  g1 = g1
  b1 = b1
  q1 = q1
  q2 = q2
  Products = {g1}
  Buyers = {b1}
  Keys = {1, 2}
  Grace = 1
  Patience = 0
  Capacity = 1
  MaxClock = 2
  MaxCrashes = 1
  Procs = {q1, q2}
SPECIFICATION VolumeFairSpec
INVARIANTS VolumeTypeOK GalleriesServed CapacityKept
PROPERTIES GraceAfterReplacement OrphansGo
CHECK_DEADLOCK FALSE
