\* Four runs, two backups kept: one run may fail or be killed after each kept one.
CONSTANTS
  MaxRuns = 4
  Keep = 2
SPECIFICATION Spec
INVARIANTS
  NeverWithoutChecksum
  DrillPassesOnlyWhole
  NewestSurvives
CHECK_DEADLOCK FALSE
