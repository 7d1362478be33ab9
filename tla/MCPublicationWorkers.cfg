SPECIFICATION FairSpec
CONSTANTS
  t1 = t1
  a1 = a1
  Translators = {t1}
  Enrichers = {a1}
  N = 2
  CandidateLimit = 2
  PerCycleLimit = 1
  DailyLimit = 2
  RequestLimit = 2
  MaxFaults = 1
INVARIANTS
  BudgetHolds
PROPERTIES
  WorkStays
  RetryWaits
  EachGetsPublished
CHECK_DEADLOCK FALSE
