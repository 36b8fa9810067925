CONSTANTS
  pw1 = pw1
  pw2 = pw2
  q1 = q1
  q2 = q2
  q3 = q3
  q4 = q4
  ip1 = ip1
  ip2 = ip2
  Passwords = {pw1, pw2}
  First = pw1
  Procs = {q1, q2}
  Ips = {ip1, ip2}
  AccountLimit = 2
  IpLimit = 1
  Window = 2
  MaxClock = 2
  MaxVersion = 3
SPECIFICATION AccountSpec
SYMMETRY Interchangeable
CONSTRAINT LimiterApart
INVARIANTS AccountTypeOK SessionsEndForGood TokensKnowPassword GuessesBounded
PROPERTY EnabledOnPurpose
CHECK_DEADLOCK FALSE
