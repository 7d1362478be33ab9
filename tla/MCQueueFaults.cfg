SPECIFICATION QueueSpec
CONSTANTS
  Jobs = {j1, j2}
  NoJob = nojob
  Outcomes = {"succeeded", "committed", "retry_scheduled", "dead_lettered"}
  MaxClaims = 3
  MaxTakeovers = 1
  Workers = {w1, w2}
  Slots = {m1, m2}
  NoSlot = noslot
  MaxAttempts = 1
  MaxDeliveries = 2
  MaxFaults = 1
SYMMETRY Symmetry
PROPERTIES
  ImplementsJobStore
CHECK_DEADLOCK FALSE
