\* Four requests over two external ids, two mailboxes and three JWTs.
CONSTANTS
  Requests = {q1, q2, q3, q4}
  Externals = {e1, e2}
  Addresses = {a1, a2}
  Tokens = {t1, t2, t3}
  t1 = t1
  t2 = t2
  t3 = t3
  a1 = a1
  a2 = a2
  AddressOf <- MCAddressOf
  NoRow = NoRow
  NoCall = NoCall
SYMMETRY RequestSymmetry
SPECIFICATION Spec
INVARIANTS
  BindingsUnique
  SealedForItsAddress
  VerdictFitsStoredJwt
PROPERTIES
  NoLostUpdate
CHECK_DEADLOCK FALSE
