------------------------------ MODULE MCHandlers ------------------------------
(* The handlers of the approval workflow for TLC, with two vendors: their  *)
(* rows in ApprovalHistory and their locks in RowLocks, explored side by   *)
(* side.                                                                   *)
EXTENDS MCInvoiceApproval, RowLocks

HandlersInit == HInit /\ LockInit

HandlersNext == \/ LockInit /\ HNext /\ UNCHANGED locks
                \/ HInit /\ LockNext /\ UNCHANGED hvars

HandlersSpec == HandlersInit /\ [][HandlersNext]_<<hvars, locks>>

HandlersSymmetry == Symmetry \cup Permutations(Transactions)
                    \cup Permutations(RequestRows) \cup Permutations(InvoiceRows)
=============================================================================
