\* A mailbox in two spellings, another one, and an address that is queried but never
\* remembered; two queries between reloads, a server that may never answer.
CONSTANTS
  a1 = a1
  a2 = a2
  b1 = b1
  noDot = noDot
  Addresses = {a1, a2, b1, noDot}
  Refused = {noDot}
  KeyOf <- MCKeyOf
  Limit = 2
  NoAddress = NoAddress
  MaxQueries = 2
  MaxStored = 2
SPECIFICATION FairSpec
INVARIANTS
  TypeOK
  ButtonsFollowTheQuery
  ShownBelongsToTheQuery
  ReloadKeepsHistory
PROPERTIES
  ButtonsComeBack
