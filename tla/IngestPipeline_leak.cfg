CONSTANTS
  Documents = {d1}
  Contents = {c1}
  None = None
  Attempts = 2
  MaxStalled = 0
  MaxDeaths = 0
SPECIFICATION Spec
CHECK_DEADLOCK FALSE
INVARIANTS
  ReviewedLeavesQuarantine
