\* Two slots, one place in line, two mails each, and a pool that just holds them.
CONSTANTS
  Queries = {q1, q2, q3}
  Slots = 2
  Line = 1
  MaxMails = 2
  PoolRoom = 4
SPECIFICATION FairQuerySpec
INVARIANTS
  UpstreamLanes
  AnswersAccountForJobs
PROPERTIES
  RefusedOnlyBehindOrphans
  EveryQueryAnswered
CHECK_DEADLOCK FALSE
