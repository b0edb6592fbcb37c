\* Timer of two ticks, deadlines before, at and after it, three chunks at most.
CONSTANTS
  RequestTimeout = 2
  MaxBytes = 2
  Deadlines = {0, 1, 2, 4, NoDeadline}
  NoDeadline = NoDeadline
  MaxTime = 5
SPECIFICATION FairRequestSpec
INVARIANTS
  RequestTypeOK
PROPERTIES
  TimeDecides
  GivingUpIsNoUpstreamError
  RequestEnds
CHECK_DEADLOCK FALSE
