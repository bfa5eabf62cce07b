SPECIFICATION MCInboxSpec
CONSTANTS
  Documents = {d1, d2}
  Contents = {c1}
  Attempts = 1
  MaxStalled = 0
  MaxDeaths = 1
  Invoices = {1, 2}
  MaxRevision = 3
  MaxCalls = 2
  Buildings = {b1, b2}
  Vendors = {v1}
  Entries = {n1}
  MaxLoads = 1
  MaxFetches = 2
  None = None
CHECK_DEADLOCK FALSE
CONSTRAINT Explored
SYMMETRY Interchangeable
INVARIANTS
  DuplicatesAreMarked
  PageConsistent
  OwnWritesShown
PROPERTIES
  AcceptedAsShown
