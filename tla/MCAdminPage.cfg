CONSTANTS
  Texts = {a, b}
  Sought = {}
  NoSearch = NoSearch
  PageSize = 1
  MaxRows = 2
  MaxOffset = 2
  Slots = {s1, s2}
  MaxWrites = 2
SPECIFICATION Spec
INVARIANTS
  TypeOK
  DialogNeverAhead
  BusyOnlyWhileLoading
PROPERTIES
  ActsOnWhatWasShown
  ListNeverGoesBack
SYMMETRY SlotSymmetry
