CONSTANTS
  Invoices = {i1}
  Vendors = {v1, v2}
  Members = {m1, m2}
  Approvers = {m2}
  Keys = {k1}
  MaxBank = 2
  MaxEditVersion = 2
  MaxDeciding = 1
  None = None
  Transactions = {t1, t2, t3}
  Entries = {e1}
  RequestRows = {r1, r2}
  InvoiceRows = {s1}
SPECIFICATION HandlersSpec
SYMMETRY HandlersSymmetry
CHECK_DEADLOCK FALSE
INVARIANTS
  OnlySweepsDeadlock
PROPERTIES
  FreezeIsScoped
