SPECIFICATION BusFairSpec
CONSTANTS
  p1 = p1
  p2 = p2
  s1 = s1
  s2 = s2
  Matches <- SecondIsNarrow
  Publishers = {p1, p2}
  Subscribers = {s1, s2}
  Nobody = nobody
  QueueSize = 1
  MaxMessages = 3
INVARIANTS
  InPublishOrder
  UnsubscribedIsQuiet
PROPERTIES
  PublishEnds
CHECK_DEADLOCK FALSE
