SPECIFICATION FairSpec
CONSTANTS
  r1 = r1
  e1 = e1
  e2 = e2
  Runners = {r1}
  Events = {e1, e2}
  Alertable = {e1}
  MaxFaults = 1
INVARIANTS
  KnownIsAccounted
PROPERTIES
  PassedOnce
  TranslationSurvives
  StageFinishes
  CollectedGetsFiltered
CHECK_DEADLOCK FALSE
