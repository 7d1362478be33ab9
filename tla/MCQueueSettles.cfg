SPECIFICATION FairQueueSpec
CONSTANTS
  Jobs = {j1}
  NoJob = nojob
  Outcomes = {"succeeded", "committed", "retry_scheduled", "dead_lettered"}
  MaxClaims = 4
  MaxTakeovers = 2
  Workers = {w1, w2}
  Slots = {m1, m2}
  NoSlot = noslot
  MaxAttempts = 2
  MaxDeliveries = 3
  MaxFaults = 1
INVARIANTS
  RunnerOwnsJob
  RetryBudget
  AttemptTellsOutcome
PROPERTIES
  AllJobsSettle
  UnclaimedGetsClaimed
CHECK_DEADLOCK FALSE
