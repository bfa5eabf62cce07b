CONSTANTS
  Documents = {d1}
  Contents = {c1}
  None = None
  Attempts = 2
  MaxStalled = 1
  MaxDeaths = 2
SPECIFICATION FairSpec
CHECK_DEADLOCK FALSE
INVARIANTS
  TypeOK
  StorageAgrees
  InvoiceAgrees
PROPERTIES
  KeepsGate
  JobsEnd
