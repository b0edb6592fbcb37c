\* Two threads as in production, one job more than the pool accepts.
CONSTANTS
  Jobs = {j1, j2, j3, j4}
  Workers <- MCWorkers
  Size = 2
  MaxQueue = 3
  NoJob = NoJob
SPECIFICATION FairSpec
INVARIANTS
  JobInOnePlace
  NoStrandedJob
  ThreadWorksOnSlotsJob
PROPERTIES
  ImplementsParsing
  EveryJobAnswered
CHECK_DEADLOCK FALSE
