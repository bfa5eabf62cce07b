SPECIFICATION MCSpec
CONSTANTS
  Vendors = {v1}
  Contracts = {k1}
  Buildings = {b1}
  Owner = Owner
  Administrator = Administrator
  Requests = {r1, r2}
  MaxVersion = 2
  MaxWrites = 2
  Notices <- MCNotices
  Events = {e1}
  Accounts = {a1}
  Strangers = {}
  MaxAge = 1
  MaxClock = 0
  RowIds = {1, 2, 3}
  Places = {1, 2}
  Limits = {1, 2}
  MaxChanges = 2
  MaxNumber = 2
  MaxTick = 1
  MaxVerdicts = 2
  None = None
  Same = Same
CHECK_DEADLOCK FALSE
CONSTRAINT Explored
INVARIANT
  CoverageHolds
