-------------------------- MODULE MCInvoiceApproval --------------------------
(* ApprovalHistory, and InvoiceApproval in it, on small instances.         *)
EXTENDS ApprovalHistory, TLC

Symmetry == Permutations(Keys) \cup Permutations(Members)
            \cup Permutations(Invoices) \cup Permutations(Vendors)
=============================================================================
