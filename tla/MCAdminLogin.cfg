\* The lock after two failures, four attempts, one of them from elsewhere.
CONSTANTS
  a1 = a1
  a2 = a2
  a3 = a3
  a4 = a4
  ip1 = ip1
  ip2 = ip2
  Attempts = {a1, a2, a3, a4}
  Ips = {ip1, ip2}
  IpOf <- MCIpOf
  Calls = {c1, c2}
  QueueSlots = 1
  QueueLine = 2
  MaxFailures = 2
  Window = 1
  SessionTtl = 1
  MaxTime = 2
  NoSession = NoSession
  NoCall = NoCall
  Done = Done
SYMMETRY LoginSymmetry
SPECIFICATION Spec
INVARIANTS
  FailuresBounded
  SessionsOfAnsweredLogins
PROPERTIES
  EndedSessionsStayEnded
CHECK_DEADLOCK FALSE
