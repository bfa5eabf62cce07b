CONSTANTS
  Documents = {d1}
  Contents = {c1}
  None = None
  Attempts = 1
  MaxStalled = 1
  MaxDeaths = 2
SPECIFICATION Spec
CHECK_DEADLOCK FALSE
INVARIANTS
  FailureIsVisible
