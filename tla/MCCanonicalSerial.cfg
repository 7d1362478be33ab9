SPECIFICATION Spec
CONSTANTS
  e1 = e1
  e2 = e2
  s1 = s1
  m1 = m1
  m2 = m2
  m3 = m3
  NoEvent = NoEvent
  NoDecision = NoDecision
  NoOp = NoOp
  Events <- MCEvents
  Mentions <- MCMentions
  Group <- MCGroup
  Decisions <- MCDecisions
  Requests <- MCRequests
  Callers = {1}
  Overlap = FALSE
INVARIANTS
  DecisionsAreTraced
  MergedIsRecorded
  MergedKeepsNothing
PROPERTIES
  ImplementsCanonicalLedger
