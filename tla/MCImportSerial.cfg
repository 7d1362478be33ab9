SPECIFICATION FairSpec
CONSTANTS
  Importers = {i1}
  Payloads = {p1, p2}
  Keys = {k1}
  NoKey = nokey
  NoReceipt = noreceipt
  NoPayload = nopayload
  Chunks = 2
  MaxFaults = 2
PROPERTIES
  ProjectedOnce
  CountedGetsCommitted
