\* One slot and two places in line: four calls fill both, and one is refused.  The wait
\* and the total time are equal, so either timer may come first.
CONSTANTS
  Requests = {r1, r2, r3, r4}
  Concurrency = 1
  MaxQueue = 2
  MaxWait = 1
  TotalTimeout = 1
SPECIFICATION FairSpec
INVARIANTS
  SlotsConserved
  LineMatchesWaiters
PROPERTIES
  NoAnswerAfterAbort
  NoOvertaking
  ImplementsAdmission
  LineMoves
  EveryCallAnswered
CHECK_DEADLOCK FALSE
