\* A row is deleted and its id given out again while a request awaits the upstream.
CONSTANTS
  Requests = {q1, q2, q3, q4}
  Externals = {e1, e2}
  Addresses = {a1, a2}
  Tokens = {t1, t2, t3}
  t1 = t1
  t2 = t2
  t3 = t3
  a1 = a1
  a2 = a2
  AddressOf <- MCAddressOf
  NoRow = NoRow
  NoCall = NoCall
SPECIFICATION Spec
INVARIANTS
  StoredJwtIsForItsAddress
CHECK_DEADLOCK FALSE
