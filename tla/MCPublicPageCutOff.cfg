\* One query whose answer breaks off.
CONSTANTS
  a1 = a1
  a2 = a2
  b1 = b1
  noDot = noDot
  Addresses = {a1}
  Refused = {}
  KeyOf <- MCKeyOf
  Limit = 1
  NoAddress = NoAddress
  MaxQueries = 1
  MaxStored = 0
SPECIFICATION Spec
PROPERTIES
  HistoryHoldsAnsweredOnly
