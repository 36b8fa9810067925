CONSTANTS
  a1 = a1
  a2 = a2
  r1 = r1
  r2 = r2
  r3 = r3
  n1 = n1
  n2 = n2
  n3 = n3
  t1 = t1
  q1 = q1
  q2 = q2
  Manage = Manage
  CouponWrite = CouponWrite
  Keep = Keep
  Admins = {a1, a2}
  RoleIds = {r1, r2, r3}
  Names = {n1, n2, n3}
  Codes = {Manage, CouponWrite}
  Templates = {t1}
  SeedAdmins <- MCAdmins
  SeedRoles <- MCRoles
  SeedGrants <- MCGrants
  Calls <- MCCalls
  Procs = {q1, q2}
  Attempts = 2
SPECIFICATION FairOfficeSpec
INVARIANT OfficeTypeOK
PROPERTIES ReplacementTakes GateDecidesLive AssignsRequestedRole EveryRequestEnds
