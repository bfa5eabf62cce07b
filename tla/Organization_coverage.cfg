SPECIFICATION MCSpec
CONSTANTS
  Vendors = {v1, v2}
  Contracts = {k1}
  Buildings = {b1, b2}
  Owner = Owner
  Administrator = Administrator
  Requests = {r1, r2}
  MaxVersion = 3
  MaxWrites = 3
  Notices <- MCNotices
  Events = {e1, e2}
  Accounts = {a1}
  Strangers = {a9}
  MaxAge = 1
  MaxClock = 2
  RowIds = {1, 2, 3}
  Places = {1, 2}
  Limits = {1, 2}
  MaxChanges = 2
  MaxNumber = 2
  MaxTick = 1
  MaxVerdicts = 2
  None = None
  Same = Same
CHECK_DEADLOCK FALSE
CONSTRAINT Explored
SYMMETRY Interchangeable
INVARIANTS
  CoveredUnlessRaced
  EventsRecordedOnce
  ListingComplete
  CompleteIsVerified
PROPERTIES
  LinksAsAsked
  ChangesAuthorized
