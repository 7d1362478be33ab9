SPECIFICATION Spec
CONSTANTS
  Jobs = {j1, j2}
  NoJob = nojob
  Outcomes = {"succeeded"}
  MaxClaims = 2
  MaxTakeovers = 1
SYMMETRY JobSymmetry
PROPERTIES
  SettledStaySettled
  ImplementsFencedJob
CHECK_DEADLOCK FALSE
