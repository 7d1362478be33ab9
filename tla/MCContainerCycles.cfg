CONSTANTS
  r1 = r1
  r2 = r2
  q1 = q1
  s1 = s1
  s2 = s2
  Runs <- MCRuns
  Requests <- MCRequests
  Users <- MCUsers
  Stores <- MCStores
  NoStore = NoStore
  Batches = 3
  MaxTroubles = 1
SYMMETRY Symm
SPECIFICATION Spec
INVARIANTS
  OneWriter
  NoConnectionLost
  ReadsAreTrue
PROPERTY CursorPassesCollected
