SPECIFICATION Spec
CONSTANTS
  Importers = {i1, i2}
  Payloads = {p1, p2}
  Keys = {k1}
  NoKey = nokey
  NoReceipt = noreceipt
  NoPayload = nopayload
  Chunks = 2
  MaxFaults = 1
SYMMETRY Symmetry
INVARIANTS
  CommittedIsBacked
  AnswersAreTrue
PROPERTIES
  ImplementsImportLedger
