CONSTANTS
  Invoices = {i1}
  Vendors = {v1}
  Members = {m1, m2, m3}
  Approvers = {m1, m2, m3}
  Keys = {k1}
  MaxBank = 2
  MaxEditVersion = 2
  MaxDeciding = 2
  None = None
SPECIFICATION HSpec
SYMMETRY Symmetry
CHECK_DEADLOCK FALSE
INVARIANTS
  EnoughApprovalsComplete
