\* One run: the snapshot is visible while mv copies it.
CONSTANTS
  MaxRuns = 1
  Keep = 1
SPECIFICATION Spec
INVARIANTS
  PlacedAtomically
CHECK_DEADLOCK FALSE
