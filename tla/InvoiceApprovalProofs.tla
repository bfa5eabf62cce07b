------------------------ MODULE InvoiceApprovalProofs ------------------------
(* Theorems about InvoiceApproval and ApprovalHistory, for all values of   *)
(* their constants.                                                        *)
EXTENDS ApprovalHistory, FiniteSetTheorems, TLAPS

(* The value None, no row and no transaction, is none of the records.      *)
LEMMA NoneIsNoRow ==
  /\ None \notin Request
  /\ None \notin SubmitTx
  /\ None \notin EditTx
  /\ None \notin BankTx
BY NoneAssumption

(* A stored request is a request, field by field.                          *)
LEMMA ExistingRequest ==
  ASSUME TypeOK, NEW k \in Keys, Exists(k)
  PROVE  /\ request[k] \in Request
         /\ request[k].invoice \in Invoices
         /\ request[k].invoiceVersion \in Nat
         /\ request[k].bank \in Nat
         /\ request[k].required \in 1..2
         /\ request[k].initiator \in Members
         /\ request[k].status \in RequestStatus
BY DEF TypeOK, Exists, Request

(* What an open submit transaction has read, field by field.               *)
LEMMA OpenSubmit ==
  ASSUME TypeOK, NEW k \in Keys, submit[k] # None
  PROVE  /\ submit[k] \in SubmitTx
         /\ submit[k].invoice \in Invoices
         /\ submit[k].version \in Nat
         /\ submit[k].bank \in Nat
         /\ submit[k].required \in 1..2
         /\ submit[k].initiator \in Members
BY DEF TypeOK, SubmitTx

(* The rows an open addBankVersion transaction has updated.                *)
LEMMA OpenBankTx ==
  ASSUME TypeOK, NEW v \in Vendors, bankTx[v] # None
  PROVE  /\ bankTx[v] \in BankTx
         /\ bankTx[v].requests \in SUBSET Keys
         /\ bankTx[v].invoices \in SUBSET Invoices
BY DEF TypeOK, BankTx

(* A request whose status changes to another status is still a request.    *)
LEMMA RequestUpdate ==
  ASSUME NEW r \in Request, NEW s \in RequestStatus
  PROVE  [r EXCEPT !.status = s] \in Request
BY DEF Request

(* A row of the invoice table, field by field.                             *)
LEMMA InvoiceRow ==
  ASSUME NEW i \in Invoices, TypeOK
  PROVE  /\ invoice[i] \in Invoice
         /\ invoice[i].status \in InvoiceStatus
         /\ invoice[i].version \in Nat
         /\ invoice[i].vendor \in Vendors
         /\ invoice[i].bank \in Nat
BY DEF TypeOK, Invoice

(* The row a handler writes when it moves an invoice to a new version.     *)
LEMMA NewInvoiceRow ==
  ASSUME NEW s \in InvoiceStatus, NEW n \in Nat, NEW v \in Vendors, NEW b \in Nat
  PROVE  [status |-> s, version |-> n + 1, vendor |-> v, bank |-> b] \in Invoice
BY DEF Invoice

(* An invoice whose status changes to another status is still an invoice.  *)
LEMMA InvoiceUpdate ==
  ASSUME NEW r \in Invoice, NEW s \in InvoiceStatus
  PROVE  [r EXCEPT !.status = s] \in Invoice
BY DEF Invoice

(* Decisions are open only on requests that exist (decide).                *)
LEMMA DeciderHasRequest ==
  ASSUME KeysInOrder, NEW k \in Keys, NEW m \in Approvers, decide[k][m] # "idle"
  PROVE  Exists(k)
BY ApproverAssumption DEF KeysInOrder

(* A request locked by a bank transaction is PENDING (addBankVersion).     *)
LEMMA LockedIsPending ==
  ASSUME LocksHold, NEW v \in Vendors, bankTx[v] # None, NEW k \in bankTx[v].requests
  PROVE  Pending(k)
BY DEF LocksHold, LocksOf

(* The initial state has the right types.                                  *)
LEMMA InitType == Init => TypeOK
BY DEF Init, TypeOK, Invoice, InvoiceStatus, DecidePhase

(* Every step of every handler keeps the types.                            *)
LEMMA NextType ==
  ASSUME TypeOK, KeysInOrder, LocksHold, [Next]_vars
  PROVE  TypeOK'
<1> USE DEF TypeOK
<1>1. ASSUME NEW k \in Keys, NEW i \in Invoices, NEW m \in Members,
             NEW l \in RiskLevel, SubmitRead(k, i, m, l)
      PROVE  TypeOK'
  <2>1. [invoice |-> i, version |-> invoice[i].version,
         bank |-> bank[invoice[i].vendor], initiator |-> m,
         required |-> Required(l)] \in SubmitTx
    BY DEF SubmitTx, Required, Invoice
  <2>2. QED
    BY <1>1, <2>1 DEF SubmitRead, tables
<1>2. ASSUME NEW k \in Keys, SubmitCommit(k) PROVE TypeOK'
  <2> DEFINE tx == submit[k]
  <2>1. tx \in SubmitTx
    BY <1>2, OpenSubmit DEF SubmitCommit
  <2>2. [invoice |-> tx.invoice, invoiceVersion |-> tx.version + 1,
         bank |-> tx.bank, required |-> tx.required,
         initiator |-> tx.initiator, status |-> "PENDING"] \in Request
    BY <2>1 DEF SubmitTx, Request, RequestStatus
  <2>3. request' \in [Keys -> Request \cup {None}]
    BY <1>2, <2>2 DEF SubmitCommit
  <2>4. invoice' \in [Invoices -> Invoice]
    BY <1>2, OpenSubmit, InvoiceRow, NewInvoiceRow DEF SubmitCommit, InvoiceStatus
  <2>5. QED
    BY <1>2, <2>3, <2>4 DEF SubmitCommit
<1>3. ASSUME NEW k \in Keys, SubmitStale(k) PROVE TypeOK'
  BY <1>3 DEF SubmitStale, tables
<1>4. ASSUME NEW k \in Keys, NEW m \in Approvers, DecideRead(k, m)
      PROVE  TypeOK'
  BY <1>4, ApproverAssumption DEF DecideRead, tables, DecidePhase
<1>5. ASSUME NEW k \in Keys, DecideStale(k) PROVE TypeOK'
  <2>1. request[k] \in Request /\ Target(k) \in Invoices
    BY <1>5, ExistingRequest DEF DecideStale, Pending, Target
  <2>2. request' \in [Keys -> Request \cup {None}]
    BY <1>5, <2>1, RequestUpdate DEF DecideStale, RequestStatus
  <2>3. invoice' \in [Invoices -> Invoice]
    BY <1>5, <2>1, InvoiceRow, NewInvoiceRow DEF DecideStale, InvoiceStatus
  <2>4. QED
    BY <1>5, <2>2, <2>3 DEF DecideStale
<1>6. ASSUME NEW k \in Keys, NEW m \in Approvers,
             NEW o \in {"APPROVE", "REJECT"}, DecideRecord(k, m, o)
      PROVE  TypeOK'
  BY <1>6, ApproverAssumption DEF DecideRecord, tables, DecidePhase
<1>7. ASSUME NEW k \in Keys, NEW m \in Approvers, DecidePartial(k, m)
      PROVE  TypeOK'
  BY <1>7, ApproverAssumption DEF DecidePartial, DecidePhase
<1>8. ASSUME NEW k \in Keys, NEW m \in Approvers, DecideApprove(k, m)
      PROVE  TypeOK'
  <2>1. Exists(k) /\ Target(k) \in Invoices
    BY <1>8, DeciderHasRequest, ExistingRequest DEF DecideApprove, Target
  <2>2. request' \in [Keys -> Request \cup {None}]
    BY <1>8, <2>1, ExistingRequest, RequestUpdate DEF DecideApprove, RequestStatus
  <2>3. invoice' \in [Invoices -> Invoice]
    BY <1>8, <2>1, InvoiceRow, InvoiceUpdate DEF DecideApprove, InvoiceStatus
  <2>4. QED
    BY <1>8, <2>2, <2>3, ApproverAssumption DEF DecideApprove, DecidePhase
<1>9. ASSUME NEW k \in Keys, NEW m \in Approvers, DecideReject(k, m)
      PROVE  TypeOK'
  <2>1. Exists(k) /\ Target(k) \in Invoices
    BY <1>9, DeciderHasRequest, ExistingRequest DEF DecideReject, Target
  <2>2. request' \in [Keys -> Request \cup {None}]
    BY <1>9, <2>1, ExistingRequest, RequestUpdate DEF DecideReject, RequestStatus
  <2>3. invoice' \in [Invoices -> Invoice]
    BY <1>9, <2>1, InvoiceRow, InvoiceUpdate DEF DecideReject, InvoiceStatus
  <2>4. QED
    BY <1>9, <2>2, <2>3, ApproverAssumption DEF DecideReject, DecidePhase
<1>10. ASSUME NEW k \in Keys, NEW m \in Approvers, DecideRefused(k, m)
       PROVE  TypeOK'
  BY <1>10, ApproverAssumption DEF DecideRefused, tables, DecidePhase
<1>11. ASSUME NEW i \in Invoices, EditRead(i) PROVE TypeOK'
  BY <1>11 DEF EditRead, tables, EditTx, Invoice
<1>12. ASSUME NEW i \in Invoices, NEW v \in Vendors, EditCommit(i, v)
       PROVE  TypeOK'
  <2>1. invoice' \in [Invoices -> Invoice]
    BY <1>12, InvoiceRow, NewInvoiceRow DEF EditCommit, InvoiceStatus
  <2>2. \A k \in Keys : request'[k] \in Request \cup {None}
    BY <1>12, ExistingRequest, RequestUpdate
       DEF EditCommit, PendingOf, Pending, RequestStatus
  <2>3. request' \in [Keys -> Request \cup {None}]
    BY <1>12, <2>2 DEF EditCommit
  <2>4. QED
    BY <1>12, <2>1, <2>3 DEF EditCommit
<1>13. ASSUME NEW i \in Invoices, EditStale(i) PROVE TypeOK'
  BY <1>13 DEF EditStale, tables
<1>14. ASSUME NEW v \in Vendors, BankInsert(v) PROVE TypeOK'
  BY <1>14 DEF BankInsert, tables, BankTx
<1>15. ASSUME NEW v \in Vendors, BankFindRequests(v) \/ BankFindInvoices(v)
       PROVE  TypeOK'
  <2>1. bankTx[v] # None /\ bankTx[v] \in BankTx /\ UNCHANGED <<tables, submit, decide, edit>>
    BY <1>15, OpenBankTx DEF BankFindRequests, BankFindInvoices
  <2>2. CASE BankFindRequests(v)
    <3> DEFINE F == {k \in Keys : Pending(k) /\ invoice[Target(k)].vendor = v}
               new == [bankTx[v] EXCEPT !.phase = "requests", !.foundRequests = F]
    <3>1. bankTx' = [bankTx EXCEPT ![v] = new]
      BY <2>2 DEF BankFindRequests
    <3>2. new \in BankTx
      BY <2>1 DEF BankTx
    <3>3. QED
      BY <2>1, <3>1, <3>2 DEF tables
  <2>3. CASE BankFindInvoices(v)
    <3> DEFINE new == [bankTx[v] EXCEPT !.phase = "invoices", !.foundInvoices = AwaitingOf(v)]
    <3>1. bankTx' = [bankTx EXCEPT ![v] = new]
      BY <2>3 DEF BankFindInvoices
    <3>2. new \in BankTx
      BY <2>1 DEF BankTx, AwaitingOf
    <3>3. QED
      BY <2>1, <3>1, <3>2 DEF tables
  <2>4. QED
    BY <1>15, <2>2, <2>3
<1>16. ASSUME NEW v \in Vendors, \/ \E k \in Keys : BankTakeRequest(v, k)
                                 \/ \E i \in Invoices : BankTakeInvoice(v, i)
       PROVE  TypeOK'
  <2>1. bankTx[v] # None /\ bankTx[v] \in BankTx /\ UNCHANGED <<tables, submit, decide, edit>>
    BY <1>16, OpenBankTx DEF BankTakeRequest, BankTakeInvoice
  <2>2. ASSUME NEW k \in Keys, BankTakeRequest(v, k) PROVE TypeOK'
    <3> DEFINE new == [bankTx[v] EXCEPT
                 !.foundRequests = bankTx[v].foundRequests \ {k},
                 !.requests = bankTx[v].requests \cup {q \in {k} : Pending(q)}]
    <3>1. bankTx' = [bankTx EXCEPT ![v] = new]
      BY <2>2 DEF BankTakeRequest
    <3>2. new \in BankTx
      BY <2>1 DEF BankTx
    <3>3. QED
      BY <2>1, <3>1, <3>2 DEF tables
  <2>3. ASSUME NEW i \in Invoices, BankTakeInvoice(v, i) PROVE TypeOK'
    <3> DEFINE new == [bankTx[v] EXCEPT
                 !.foundInvoices = bankTx[v].foundInvoices \ {i},
                 !.invoices = bankTx[v].invoices \cup ({i} \cap AwaitingOf(v))]
    <3>1. bankTx' = [bankTx EXCEPT ![v] = new]
      BY <2>3 DEF BankTakeInvoice
    <3>2. new \in BankTx
      BY <2>1 DEF BankTx
    <3>3. QED
      BY <2>1, <3>1, <3>2 DEF tables
  <2>4. QED
    BY <1>16, <2>2, <2>3
<1>17. ASSUME NEW v \in Vendors, BankCommit(v) PROVE TypeOK'
  <2>1. \A k \in Keys : request'[k] \in Request \cup {None}
    BY <1>17, RequestUpdate, LockedIsPending, ExistingRequest
       DEF BankCommit, RequestStatus, Pending
  <2>2. \A i \in Invoices : invoice'[i] \in Invoice
    BY <1>17, InvoiceRow, NewInvoiceRow DEF BankCommit, InvoiceStatus
  <2>3. /\ request' \in [Keys -> Request \cup {None}]
        /\ invoice' \in [Invoices -> Invoice]
        /\ bank' \in [Vendors -> Nat]
    BY <1>17, <2>1, <2>2 DEF BankCommit
  <2>4. QED
    BY <1>17, <2>3 DEF BankCommit
<1>18. ASSUME NEW k \in Keys, SubmitTimeout(k) PROVE TypeOK'
  BY <1>18 DEF SubmitTimeout, tables
<1>19. ASSUME NEW k \in Keys, NEW m \in Approvers, DecideTimeout(k, m)
       PROVE  TypeOK'
  BY <1>19 DEF DecideTimeout, tables, DecidePhase
<1>20. ASSUME NEW i \in Invoices, EditTimeout(i) PROVE TypeOK'
  BY <1>20 DEF EditTimeout, tables
<1>21. ASSUME NEW v \in Vendors, BankTimeout(v) PROVE TypeOK'
  BY <1>21 DEF BankTimeout, tables
<1>22. CASE UNCHANGED vars
  BY <1>22 DEF vars
<1>23. QED
  BY <1>1, <1>2, <1>3, <1>4, <1>5, <1>6, <1>7, <1>8, <1>9, <1>10, <1>11,
     <1>12, <1>13, <1>14, <1>15, <1>16, <1>17, <1>18, <1>19,
     <1>20, <1>21, <1>22
     DEF Next, Submitting, Deciding, Editing, Banking

-----------------------------------------------------------------------------
(* What the committing steps do to each row                                *)

(* Request q keeps all its columns but the status, which becomes s.        *)
Becomes(q, s) ==
  /\ Exists(q)'
  /\ request'[q].invoice = request[q].invoice
  /\ request'[q].invoiceVersion = request[q].invoiceVersion
  /\ request'[q].bank = request[q].bank
  /\ request'[q].required = request[q].required
  /\ request'[q].initiator = request[q].initiator
  /\ request'[q].status = s

(* An UPDATE of a request's status leaves a request with that status.      *)
LEMMA StatusUpdate ==
  ASSUME TypeOK, NEW k \in Keys, Exists(k), NEW s \in RequestStatus,
         request'[k] = [request[k] EXCEPT !.status = s]
  PROVE  Becomes(k, s)
<1>1. request[k] \in Request
  BY ExistingRequest
<1>2. request'[k] \in Request
  BY <1>1, RequestUpdate
<1>3. QED
  BY <1>1, <1>2, NoneIsNoRow DEF Becomes, Exists, Request

(* What the commit of submit does to the two tables.                       *)
LEMMA SubmitCommitRows ==
  ASSUME TypeOK, KeysInOrder, NEW k \in Keys, SubmitCommit(k)
  PROVE  /\ submit[k].invoice \in Invoices
         /\ submit[k].version \in Nat
         /\ submit[k].initiator \in Members
         /\ submit[k].required \in 1..2
         /\ submit[k].bank \in Nat
         /\ ~Exists(k)
         /\ Exists(k)'
         /\ request'[k].invoice = submit[k].invoice
         /\ request'[k].invoiceVersion = submit[k].version + 1
         /\ request'[k].bank = submit[k].bank
         /\ request'[k].required = submit[k].required
         /\ request'[k].initiator = submit[k].initiator
         /\ request'[k].status = "PENDING"
         /\ \A q \in Keys \ {k} : request'[q] = request[q]
         /\ invoice[submit[k].invoice].status = "NEEDS_REVIEW"
         /\ invoice[submit[k].invoice].version = submit[k].version
         /\ invoice'[submit[k].invoice].status = "AWAITING_APPROVAL"
         /\ invoice'[submit[k].invoice].version = submit[k].version + 1
         /\ invoice'[submit[k].invoice].vendor = invoice[submit[k].invoice].vendor
         /\ invoice'[submit[k].invoice].bank = submit[k].bank
         /\ \A j \in Invoices \ {submit[k].invoice} : invoice'[j] = invoice[j]
<1> DEFINE new == [invoice |-> submit[k].invoice,
                   invoiceVersion |-> submit[k].version + 1,
                   bank |-> submit[k].bank, required |-> submit[k].required,
                   initiator |-> submit[k].initiator, status |-> "PENDING"]
<1>1. /\ submit[k].invoice \in Invoices
      /\ submit[k].version \in Nat
      /\ submit[k].initiator \in Members
      /\ submit[k].required \in 1..2
      /\ submit[k].bank \in Nat
  BY OpenSubmit DEF SubmitCommit
<1>2. new \in Request
  BY <1>1 DEF Request, RequestStatus
<1>3. request' = [request EXCEPT ![k] = new]
  BY DEF SubmitCommit
<1>4. /\ request'[k] = new
      /\ \A q \in Keys \ {k} : request'[q] = request[q]
  BY <1>3 DEF TypeOK
<1>5. ~Exists(k) /\ Exists(k)'
  BY <1>2, <1>4, NoneIsNoRow DEF SubmitCommit, KeysInOrder, Exists
<1>6. /\ invoice[submit[k].invoice].status = "NEEDS_REVIEW"
      /\ invoice[submit[k].invoice].version = submit[k].version
      /\ invoice'[submit[k].invoice] =
           [status |-> "AWAITING_APPROVAL", version |-> submit[k].version + 1,
            vendor |-> invoice[submit[k].invoice].vendor, bank |-> submit[k].bank]
      /\ \A j \in Invoices \ {submit[k].invoice} : invoice'[j] = invoice[j]
  BY <1>1 DEF SubmitCommit, StillReady, TypeOK
<1>7. QED
  BY <1>1, <1>4, <1>5, <1>6

(* What invalidate does to the two tables.                                 *)
LEMMA DecideStaleRows ==
  ASSUME TypeOK, NEW k \in Keys, DecideStale(k)
  PROVE  /\ Target(k) \in Invoices
         /\ Becomes(k, "INVALIDATED")
         /\ \A q \in Keys \ {k} : request'[q] = request[q]
         /\ \A j \in Invoices \ {Target(k)} : invoice'[j] = invoice[j]
         /\ Speaks(k) =>
              /\ invoice'[Target(k)].status = "NEEDS_REVIEW"
              /\ invoice'[Target(k)].version = invoice[Target(k)].version + 1
              /\ invoice'[Target(k)].vendor = invoice[Target(k)].vendor
         /\ ~Speaks(k) => invoice' = invoice
<1>1. Exists(k) /\ Target(k) \in Invoices
  BY ExistingRequest DEF DecideStale, Pending, Target
<1>2. /\ request'[k] = [request[k] EXCEPT !.status = "INVALIDATED"]
      /\ \A q \in Keys \ {k} : request'[q] = request[q]
  BY DEF DecideStale, TypeOK
<1>3. Becomes(k, "INVALIDATED")
  BY <1>1, <1>2, StatusUpdate DEF RequestStatus
<1>4. /\ \A j \in Invoices \ {Target(k)} : invoice'[j] = invoice[j]
      /\ Speaks(k) =>
           /\ invoice'[Target(k)].status = "NEEDS_REVIEW"
           /\ invoice'[Target(k)].version = invoice[Target(k)].version + 1
           /\ invoice'[Target(k)].vendor = invoice[Target(k)].vendor
      /\ ~Speaks(k) => invoice' = invoice
  BY <1>1 DEF DecideStale, Speaks, TypeOK
<1>5. QED
  BY <1>1, <1>2, <1>3, <1>4

(* An approval and a rejection that completes its request do the same to   *)
(* the rows, with another status.                                          *)
Verdict(k, s) ==
  /\ request' = [request EXCEPT ![k].status = s]
  /\ invoice' = [invoice EXCEPT ![Target(k)].status = s]

(* What a verdict, of either kind, does to the two tables (decide).        *)
LEMMA VerdictRows ==
  ASSUME TypeOK, NEW k \in Keys, Exists(k),
         NEW s \in {"APPROVED", "REJECTED"}, Verdict(k, s)
  PROVE  /\ Target(k) \in Invoices
         /\ Becomes(k, s)
         /\ \A q \in Keys \ {k} : request'[q] = request[q]
         /\ \A j \in Invoices \ {Target(k)} : invoice'[j] = invoice[j]
         /\ invoice'[Target(k)].status = s
         /\ invoice'[Target(k)].version = invoice[Target(k)].version
         /\ invoice'[Target(k)].vendor = invoice[Target(k)].vendor
         /\ invoice'[Target(k)].bank = invoice[Target(k)].bank
<1>1. Target(k) \in Invoices
  BY ExistingRequest DEF Target
<1>2. /\ request'[k] = [request[k] EXCEPT !.status = s]
      /\ \A q \in Keys \ {k} : request'[q] = request[q]
  BY DEF Verdict, TypeOK
<1>3. Becomes(k, s)
  BY <1>2, StatusUpdate DEF RequestStatus
<1>4. /\ \A j \in Invoices \ {Target(k)} : invoice'[j] = invoice[j]
      /\ invoice'[Target(k)] = [invoice[Target(k)] EXCEPT !.status = s]
  BY <1>1 DEF Verdict, TypeOK
<1>5. /\ invoice'[Target(k)].status = s
      /\ invoice'[Target(k)].version = invoice[Target(k)].version
      /\ invoice'[Target(k)].vendor = invoice[Target(k)].vendor
      /\ invoice'[Target(k)].bank = invoice[Target(k)].bank
  BY <1>1, <1>4, InvoiceRow DEF Invoice
<1>6. QED
  BY <1>1, <1>2, <1>3, <1>4, <1>5

(* What the commit of update does to the two tables.                       *)
LEMMA EditCommitRows ==
  ASSUME TypeOK, NEW i \in Invoices, NEW v \in Vendors, EditCommit(i, v)
  PROVE  /\ \A j \in Invoices \ {i} : invoice'[j] = invoice[j]
         /\ invoice'[i].version = invoice[i].version + 1
         /\ edit[i].invalidates => invoice'[i].status = "NEEDS_REVIEW"
         /\ ~edit[i].invalidates => invoice'[i].status = invoice[i].status
         /\ \A k \in Keys :
              IF edit[i].invalidates /\ k \in PendingOf(i)
              THEN Becomes(k, "INVALIDATED")
              ELSE request'[k] = request[k]
<1>1. /\ \A j \in Invoices \ {i} : invoice'[j] = invoice[j]
      /\ invoice'[i].version = invoice[i].version + 1
      /\ edit[i].invalidates => invoice'[i].status = "NEEDS_REVIEW"
      /\ ~edit[i].invalidates => invoice'[i].status = invoice[i].status
  BY DEF EditCommit, TypeOK
<1>2. \A k \in Keys :
        request'[k] = IF edit[i].invalidates /\ k \in PendingOf(i)
                      THEN [request[k] EXCEPT !.status = "INVALIDATED"]
                      ELSE request[k]
  BY DEF EditCommit
<1>3. ASSUME NEW k \in Keys, k \in PendingOf(i), edit[i].invalidates
      PROVE  Becomes(k, "INVALIDATED")
  BY <1>2, <1>3, StatusUpdate DEF PendingOf, Pending, RequestStatus
<1>4. QED
  BY <1>1, <1>2, <1>3

(* What the commit of addBankVersion does to the two tables.               *)
LEMMA BankCommitRows ==
  ASSUME TypeOK, LocksHold, NEW v \in Vendors, BankCommit(v)
  PROVE  /\ \A k \in Keys :
              IF k \in bankTx[v].requests
              THEN Becomes(k, "INVALIDATED")
              ELSE request'[k] = request[k]
         /\ \A i \in Invoices :
              IF i \in bankTx[v].invoices
              THEN /\ invoice'[i].status = "NEEDS_REVIEW"
                   /\ invoice'[i].version = invoice[i].version + 1
                   /\ invoice'[i].vendor = invoice[i].vendor
              ELSE invoice'[i] = invoice[i]
         /\ bankTx' = [bankTx EXCEPT ![v] = None]
<1>1. \A k \in Keys :
        request'[k] = IF k \in bankTx[v].requests
                      THEN [request[k] EXCEPT !.status = "INVALIDATED"]
                      ELSE request[k]
  BY DEF BankCommit
<1>2. ASSUME NEW k \in Keys, k \in bankTx[v].requests
      PROVE  Becomes(k, "INVALIDATED")
  BY <1>1, <1>2, LockedIsPending, StatusUpdate
     DEF BankCommit, Pending, RequestStatus
<1>3. QED
  BY <1>1, <1>2 DEF BankCommit

-----------------------------------------------------------------------------
(* The inductive strengthening                                             *)

(* The steps of addBankVersion up to its commit.                           *)
BankSweeps(v) ==
  \/ BankInsert(v)
  \/ BankFindRequests(v)
  \/ \E k \in Keys : BankTakeRequest(v, k)
  \/ BankFindInvoices(v)
  \/ \E i \in Invoices : BankTakeInvoice(v, i)
  \/ BankTimeout(v)

(* They change nothing but their own local state.                          *)
LEMMA SweepsOnly ==
  ASSUME NEW v \in Vendors, BankSweeps(v)
  PROVE  UNCHANGED <<tables, submit, decide, edit>>
BY DEF BankSweeps, BankInsert, BankFindRequests, BankTakeRequest, BankFindInvoices,
       BankTakeInvoice, BankTimeout

LEMMA InitInductive == Init => Inductive
BY DEF Init, Inductive, KeysInOrder, LocksHold, LocksOf, DecisionsInOrder, DecisionsOf,
       VersionsInOrder, VersionOf, OneRequestPerVersion, Exists, Decided

(* Requests and decisions start in the order the handlers give them.       *)
LEMMA NextKeys ==
  ASSUME TypeOK, KeysInOrder, LocksHold, [Next]_vars
  PROVE  KeysInOrder'
<1> USE DEF KeysInOrder, Decided
<1>1. ASSUME NEW k \in Keys, SubmitCommit(k) PROVE KeysInOrder'
  BY <1>1, SubmitCommitRows DEF SubmitCommit, Exists, TypeOK
<1>2. ASSUME NEW k \in Keys, NEW i \in Invoices, NEW m \in Members,
             NEW l \in RiskLevel, SubmitRead(k, i, m, l)
      PROVE  KeysInOrder'
  BY <1>2 DEF SubmitRead, tables, Exists, TypeOK
<1>3. ASSUME NEW k \in Keys, SubmitStale(k) \/ SubmitTimeout(k)
      PROVE  KeysInOrder'
  BY <1>3 DEF SubmitStale, SubmitTimeout, tables, Exists, TypeOK
<1>4. ASSUME NEW k \in Keys, DecideStale(k) PROVE KeysInOrder'
  <2>1. Exists(k) /\ Exists(k)' /\ \A q \in Keys \ {k} : request'[q] = request[q]
    BY <1>4, DecideStaleRows DEF DecideStale, Pending, Becomes
  <2>2. QED
    BY <1>4, <2>1 DEF DecideStale, Exists
<1>5. ASSUME NEW k \in Keys, NEW m \in Approvers, DecideRead(k, m)
      PROVE  KeysInOrder'
  BY <1>5 DEF DecideRead, Pending, tables, Exists, TypeOK
<1>6. ASSUME NEW k \in Keys, NEW m \in Approvers,
             \/ \E o \in {"APPROVE", "REJECT"} : DecideRecord(k, m, o)
             \/ DecidePartial(k, m) \/ DecideRefused(k, m) \/ DecideTimeout(k, m)
      PROVE  KeysInOrder'
  <2>1. decide[k][m] # "idle"
    BY <1>6 DEF DecideRecord, DecidePartial, DecideRefused, DecideTimeout
  <2>2. Exists(k)
    BY <2>1, DeciderHasRequest
  <2>3. /\ request' = request /\ submit' = submit
        /\ \A q \in Keys \ {k} : /\ approvals'[q] = approvals[q]
                                 /\ rejections'[q] = rejections[q]
                                 /\ decide'[q] = decide[q]
    <3>1. CASE \E o \in {"APPROVE", "REJECT"} : DecideRecord(k, m, o)
      BY <3>1 DEF DecideRecord, tables, TypeOK
    <3>2. CASE DecidePartial(k, m)
      BY <3>2 DEF DecidePartial, TypeOK
    <3>3. CASE DecideRefused(k, m) \/ DecideTimeout(k, m)
      BY <3>3 DEF DecideRefused, DecideTimeout, tables, TypeOK
    <3>4. QED
      BY <1>6, <3>1, <3>2, <3>3
  <2>4. QED
    BY <2>2, <2>3 DEF Exists
<1>7. ASSUME NEW k \in Keys, NEW m \in Approvers,
             DecideApprove(k, m) \/ DecideReject(k, m)
      PROVE  KeysInOrder'
  <2>1. Exists(k)
    BY <1>7, DeciderHasRequest DEF DecideApprove, DecideReject
  <2>2. Exists(k)' /\ \A q \in Keys \ {k} : request'[q] = request[q]
    BY <1>7, <2>1, VerdictRows DEF DecideApprove, DecideReject, Verdict, Becomes
  <2>3. QED
    BY <1>7, <2>1, <2>2 DEF DecideApprove, DecideReject, Exists, TypeOK
<1>8. ASSUME NEW i \in Invoices, NEW v \in Vendors, EditCommit(i, v)
      PROVE  KeysInOrder'
  <2>1. \A k \in Keys : Exists(k)' <=> Exists(k)
    BY <1>8, EditCommitRows DEF Becomes, PendingOf, Pending, Exists
  <2>2. UNCHANGED <<approvals, rejections, submit, decide>>
    BY <1>8 DEF EditCommit
  <2>3. QED
    BY <2>1, <2>2
<1>9. ASSUME NEW i \in Invoices, EditRead(i) \/ EditStale(i) \/ EditTimeout(i)
      PROVE  KeysInOrder'
  BY <1>9 DEF EditRead, EditStale, EditTimeout, tables, Exists
<1>10. ASSUME NEW v \in Vendors, BankCommit(v) PROVE KeysInOrder'
  <2>1. ASSUME NEW k \in Keys PROVE Exists(k)' <=> Exists(k)
    <3>1. CASE k \in bankTx[v].requests
      <4>1. Exists(k)
        BY <1>10, <3>1, LockedIsPending DEF BankCommit, Pending
      <4>2. Exists(k)'
        BY <1>10, <3>1, BankCommitRows DEF Becomes
      <4>3. QED
        BY <4>1, <4>2
    <3>2. CASE k \notin bankTx[v].requests
      <4>1. request'[k] = request[k]
        BY <1>10, <3>2, BankCommitRows
      <4>2. QED
        BY <4>1 DEF Exists
    <3>3. QED
      BY <3>1, <3>2
  <2>2. UNCHANGED <<approvals, rejections, submit, decide>>
    BY <1>10 DEF BankCommit
  <2>3. QED
    BY <2>1, <2>2
<1>11. ASSUME NEW v \in Vendors, BankSweeps(v) PROVE KeysInOrder'
  BY <1>11, SweepsOnly DEF tables, Exists
<1>12. CASE UNCHANGED vars
  BY <1>12 DEF vars, Exists
<1>13. QED
  BY <1>1, <1>2, <1>3, <1>4, <1>5, <1>6, <1>7, <1>8, <1>9, <1>10, <1>11, <1>12
     DEF Next, Submitting, Deciding, Editing, Banking, BankSweeps

(* What a step may do to one request: nothing, void it while it is PENDING,*)
(* or complete it (every handler, and the trigger on ApprovalRequest).     *)
RequestSteps(k) == \/ request'[k] = request[k]
                   \/ Becomes(k, "INVALIDATED") /\ Pending(k)
                   \/ \E s \in {"APPROVED", "REJECTED"} :
                        Becomes(k, s) /\ request[k].status \in {"PENDING", s}

(* What it may do to one invoice without taking it out of approval.        *)
InvoiceSteps(i) == \/ invoice'[i] = invoice[i]
                   \/ invoice'[i].version = invoice[i].version + 1
                   \/ /\ invoice'[i].version = invoice[i].version
                      /\ invoice'[i].status \in {"APPROVED", "REJECTED"}
                      /\ invoice'[i].vendor = invoice[i].vendor

(* What a step of any handler may do to the two tables.                    *)
LEMMA EveryRowSteps ==
  ASSUME TypeOK, Inductive, [Next]_vars
  PROVE  /\ \A q \in Keys : Exists(q) => RequestSteps(q)
         /\ \A i \in Invoices : InvoiceSteps(i)
<1> USE DEF Inductive
<1> DEFINE Goal == /\ \A q \in Keys : Exists(q) => RequestSteps(q)
                   /\ \A i \in Invoices : InvoiceSteps(i)
<1>1. ASSUME NEW k \in Keys, SubmitCommit(k) PROVE Goal
  BY <1>1, SubmitCommitRows DEF RequestSteps, InvoiceSteps
<1>2. ASSUME NEW k \in Keys, DecideStale(k) PROVE Goal
  BY <1>2, DecideStaleRows DEF RequestSteps, InvoiceSteps, DecideStale
<1>3. ASSUME NEW k \in Keys, NEW m \in Approvers,
             DecideApprove(k, m) \/ DecideReject(k, m)
      PROVE  Goal
  <2>1. Exists(k)
    BY <1>3, DeciderHasRequest DEF DecideApprove, DecideReject
  <2>2. PICK s \in {"APPROVED", "REJECTED"} : Verdict(k, s) /\ MayBecome(k, s)
    BY <1>3 DEF DecideApprove, DecideReject, Verdict
  <2>3. QED
    BY <2>1, <2>2, VerdictRows DEF RequestSteps, InvoiceSteps, MayBecome
<1>4. ASSUME NEW i \in Invoices, NEW v \in Vendors, EditCommit(i, v) PROVE Goal
  BY <1>4, EditCommitRows DEF RequestSteps, InvoiceSteps, PendingOf
<1>5. ASSUME NEW v \in Vendors, BankCommit(v) PROVE Goal
  BY <1>5, BankCommitRows, LockedIsPending DEF RequestSteps, InvoiceSteps, BankCommit
<1>6. ASSUME UNCHANGED <<invoice, request>> PROVE Goal
  BY <1>6 DEF RequestSteps, InvoiceSteps
<1>7. QED
  BY <1>1, <1>2, <1>3, <1>4, <1>5, <1>6, SweepsOnly
     DEF Next, vars, tables, Submitting, Deciding, Editing, Banking, BankSweeps,
         SubmitRead, SubmitStale, SubmitTimeout, DecideRead, DecideRecord,
         DecidePartial, DecideRefused, DecideTimeout, EditRead, EditStale, EditTimeout

(* A request that is PENDING after a step has not changed, and if it still *)
(* speaks of its invoice, nor has the invoice.                             *)
LEMMA PendingUnchanged ==
  ASSUME TypeOK, Inductive, [Next]_vars, NEW k \in Keys, Exists(k)
  PROVE  /\ Exists(k)'
         /\ Target(k)' = Target(k)
         /\ Pending(k)' => /\ request'[k] = request[k]
                           /\ Speaks(k)' => invoice'[Target(k)] = invoice[Target(k)]
<1>1. RequestSteps(k) /\ Target(k) \in Invoices
  BY EveryRowSteps, ExistingRequest DEF Target
<1>2. Exists(k)' /\ Target(k)' = Target(k)
  BY <1>1 DEF RequestSteps, Becomes, Exists, Target
<1>3. ASSUME Pending(k)' PROVE request'[k] = request[k]
  BY <1>1, <1>3 DEF RequestSteps, Becomes, Pending
<1>4. ASSUME Pending(k)', Speaks(k)' PROVE invoice'[Target(k)] = invoice[Target(k)]
  <2>1. /\ request[k].invoiceVersion <= invoice[Target(k)].version
        /\ request[k].invoiceVersion \in Nat /\ invoice[Target(k)].version \in Nat
    BY <1>1, ExistingRequest, InvoiceRow DEF Inductive, VersionsInOrder, OneRequestPerVersion
  <2>2. /\ invoice'[Target(k)].version = request[k].invoiceVersion
        /\ invoice'[Target(k)].status = "AWAITING_APPROVAL"
    BY <1>2, <1>3, <1>4 DEF Speaks
  <2>3. InvoiceSteps(Target(k))
    BY <1>1, EveryRowSteps
  <2>4. QED
    BY <2>1, <2>2, <2>3 DEF InvoiceSteps
<1>5. QED
  BY <1>2, <1>3, <1>4

(* Locks survive a step that leaves what is locked, and who locks, alone.  *)
LEMMA LocksKept ==
  ASSUME TypeOK, Inductive, [Next]_vars, NEW v \in Vendors, bankTx[v] # None,
         bankTx'[v] = bankTx[v],
         \A w \in Vendors : bankTx'[w] # None => bankTx'[w] = bankTx[w],
         \A k \in bankTx[v].requests : request'[k] = request[k],
         \A i \in bankTx[v].invoices : invoice'[i] = invoice[i]
  PROVE  LocksOf(v)'
<1>1. LocksOf(v) /\ bankTx[v] \in BankTx
  BY OpenBankTx DEF Inductive, LocksHold
<1>2. bankTx[v].requests \subseteq Keys /\ bankTx[v].foundRequests \subseteq Keys
  BY <1>1 DEF BankTx
<1>3. ASSUME NEW k \in bankTx[v].requests
      PROVE  /\ Pending(k)'
             /\ Target(k)' = Target(k)
             /\ Speaks(k)' => Speaks(k) /\ invoice'[Target(k)] = invoice[Target(k)]
  BY <1>1, <1>2, <1>3, PendingUnchanged DEF LocksOf, Pending, Exists, Speaks
<1>4. ASSUME NEW k \in bankTx[v].foundRequests
      PROVE  /\ Exists(k)'
             /\ Pending(k)' /\ Speaks(k)' => invoice'[Target(k)'].vendor = v
  BY <1>1, <1>2, <1>4, PendingUnchanged DEF LocksOf, Pending, Speaks
<1>5. QED
  BY <1>1, <1>3, <1>4 DEF LocksOf

(* A step of the open transaction of one vendor, up to its commit.         *)
LEMMA OneLocker ==
  ASSUME TypeOK, LocksHold, NEW w \in Vendors, UNCHANGED <<invoice, request>>,
         \A u \in Vendors \ {w} : bankTx'[u] = bankTx[u],
         bankTx'[w] = None \/ /\ LocksOf(w)'
                              /\ \A u \in Vendors \ {w} : bankTx[u] # None =>
                                   bankTx'[w].requests \cap bankTx[u].requests = {}
  PROVE  LocksHold'
<1>1. ASSUME NEW v \in Vendors \ {w}, bankTx'[v] # None PROVE LocksOf(v)'
  <2>1. bankTx[v] # None /\ bankTx'[v] = bankTx[v] /\ LocksOf(v)
    BY <1>1 DEF LocksHold
  <2>2. ASSUME NEW u \in Vendors \ {v}, bankTx'[u] # None
        PROVE  bankTx'[u].requests \cap bankTx'[v].requests = {}
    <3>1. CASE u = w
      BY <1>1, <2>1, <2>2, <3>1
    <3>2. CASE u # w
      <4>1. bankTx'[u] = bankTx[u]
        BY <3>2
      <4>2. QED
        BY <2>1, <2>2, <4>1 DEF LocksOf
    <3>3. QED
      BY <3>1, <3>2
  <2>3. \A k : /\ Exists(k)' <=> Exists(k)
               /\ Pending(k)' <=> Pending(k)
               /\ Speaks(k)' <=> Speaks(k)
               /\ Target(k)' = Target(k)
    BY DEF Pending, Exists, Speaks, Target
  <2>4. QED
    BY <2>1, <2>2, <2>3 DEF LocksOf
<1>2. QED
  BY <1>1 DEF LocksHold

(* The requests locked by a bank transaction.                              *)
LEMMA LockedRequest ==
  ASSUME TypeOK, LocksHold, NEW v \in Vendors, bankTx[v] # None,
         NEW k \in bankTx[v].requests
  PROVE  /\ k \in Keys
         /\ k \in LockedRequests
         /\ Exists(k)
         /\ Pending(k)
         /\ Target(k) \in Invoices
BY LockedIsPending, OpenBankTx, ExistingRequest DEF LockedRequests, Pending, Target

(* The invoices locked by a bank transaction.                              *)
LEMMA LockedInvoice ==
  ASSUME TypeOK, LocksHold, NEW v \in Vendors, bankTx[v] # None,
         NEW i \in bankTx[v].invoices
  PROVE  /\ i \in Invoices
         /\ i \in LockedInvoices
         /\ invoice[i].vendor = v
         /\ invoice[i].status = "AWAITING_APPROVAL"
BY OpenBankTx DEF LocksHold, LocksOf, LockedInvoices

(* Row locks: what an open bank transaction has updated stays as it was    *)
(* until that transaction ends.                                            *)
LEMMA NextLocks ==
  ASSUME TypeOK, Inductive, [Next]_vars
  PROVE  LocksHold'
<1> USE DEF Inductive
<1>1. ASSUME NEW k \in Keys, SubmitCommit(k), NEW v \in Vendors, bankTx[v] # None
      PROVE  LocksOf(v)'
  <2>1. \A q \in bankTx[v].requests : request'[q] = request[q]
    BY <1>1, LockedRequest, SubmitCommitRows
  <2>2. \A i \in bankTx[v].invoices : invoice'[i] = invoice[i]
    BY <1>1, LockedInvoice, SubmitCommitRows DEF SubmitCommit
  <2>3. bankTx' = bankTx
    BY <1>1 DEF SubmitCommit
  <2>4. QED
    BY <1>1, <2>1, <2>2, <2>3, LocksKept
<1>2. ASSUME NEW k \in Keys, DecideStale(k), NEW v \in Vendors, bankTx[v] # None
      PROVE  LocksOf(v)'
  <2>1. \A q \in bankTx[v].requests : request'[q] = request[q]
    BY <1>2, LockedRequest, DecideStaleRows DEF DecideStale
  <2>2. \A i \in bankTx[v].invoices : invoice'[i] = invoice[i]
    BY <1>2, LockedInvoice, DecideStaleRows DEF DecideStale
  <2>3. bankTx' = bankTx
    BY <1>2 DEF DecideStale
  <2>4. QED
    BY <1>2, <2>1, <2>2, <2>3, LocksKept
<1>3. ASSUME NEW k \in Keys, NEW m \in Approvers,
             DecideApprove(k, m) \/ DecideReject(k, m),
             NEW v \in Vendors, bankTx[v] # None
      PROVE  LocksOf(v)'
  <2>1. PICK s \in {"APPROVED", "REJECTED"} : Verdict(k, s)
    BY <1>3 DEF DecideApprove, DecideReject, Verdict
  <2>2. Exists(k) /\ RowsFree(k) /\ bankTx' = bankTx
    BY <1>3, DeciderHasRequest DEF DecideApprove, DecideReject
  <2>3. \A q \in bankTx[v].requests : request'[q] = request[q]
    BY <1>3, <2>1, <2>2, LockedRequest, VerdictRows DEF RowsFree
  <2>4. \A i \in bankTx[v].invoices : invoice'[i] = invoice[i]
    BY <1>3, <2>1, <2>2, LockedInvoice, VerdictRows DEF RowsFree
  <2>5. QED
    BY <1>3, <2>2, <2>3, <2>4, LocksKept
<1>4. ASSUME NEW i \in Invoices, NEW n \in Vendors, EditCommit(i, n),
             NEW v \in Vendors, bankTx[v] # None
      PROVE  LocksOf(v)'
  <2>1. \A q \in bankTx[v].requests : request'[q] = request[q]
    BY <1>4, LockedRequest, EditCommitRows DEF EditCommit, EditUnblocked
  <2>2. \A j \in bankTx[v].invoices : invoice'[j] = invoice[j]
    BY <1>4, LockedInvoice, EditCommitRows DEF EditCommit, EditUnblocked
  <2>3. bankTx' = bankTx
    BY <1>4 DEF EditCommit
  <2>4. QED
    BY <1>4, <2>1, <2>2, <2>3, LocksKept
<1>5. ASSUME NEW w \in Vendors, BankCommit(w),
             NEW v \in Vendors, bankTx'[v] # None
      PROVE  LocksOf(v)'
  <2>1. v # w /\ bankTx'[v] = bankTx[v] /\ bankTx[v] # None /\ bankTx[w] # None
    BY <1>5 DEF BankCommit, TypeOK
  <2>2. \A u \in Vendors : bankTx'[u] # None => bankTx'[u] = bankTx[u]
    BY <1>5 DEF BankCommit, TypeOK
  <2>3. \A q \in bankTx[v].requests : request'[q] = request[q]
    <3>1. bankTx[w].requests \cap bankTx[v].requests = {}
      BY <2>1 DEF LocksHold, LocksOf
    <3>2. QED
      BY <1>5, <2>1, <3>1, LockedRequest, BankCommitRows
  <2>4. \A i \in bankTx[v].invoices : invoice'[i] = invoice[i]
    BY <1>5, <2>1, LockedInvoice, BankCommitRows
  <2>5. QED
    BY <1>5, <2>1, <2>2, <2>3, <2>4, LocksKept
<1>6. ASSUME NEW w \in Vendors, BankSweeps(w) PROVE LocksHold'
  <2>1. UNCHANGED <<invoice, request>> /\ \A u \in Vendors \ {w} : bankTx'[u] = bankTx[u]
    BY <1>6, SweepsOnly
       DEF tables, BankSweeps, BankInsert, BankFindRequests, BankTakeRequest,
           BankFindInvoices, BankTakeInvoice, BankTimeout, TypeOK
  <2>2. CASE BankInsert(w)
    <3>1. bankTx'[w] = [phase |-> "inserted", foundRequests |-> {}, requests |-> {},
                        foundInvoices |-> {}, invoices |-> {}]
      BY <2>2 DEF BankInsert, TypeOK
    <3>2. LocksOf(w)'
      BY <3>1 DEF LocksOf
    <3>3. QED
      BY <2>1, <3>1, <3>2, OneLocker
  <2>3. CASE BankFindRequests(w)
    <3> DEFINE found == {k \in Keys : Pending(k) /\ invoice[Target(k)].vendor = w}
    <3>1. /\ bankTx[w] # None /\ bankTx[w].phase = "inserted" /\ bankTx[w] \in BankTx
          /\ bankTx' = [bankTx EXCEPT ![w] =
               [@ EXCEPT !.phase = "requests", !.foundRequests = found]]
      BY <2>3, OpenBankTx DEF BankFindRequests
    <3>2. /\ bankTx'[w].phase = "requests"
          /\ bankTx'[w].foundRequests = found
          /\ bankTx'[w].requests = bankTx[w].requests
          /\ bankTx'[w].invoices = bankTx[w].invoices
      BY <3>1 DEF TypeOK, BankTx
    <3>3. LocksOf(w) /\ bankTx[w].requests = {} /\ bankTx[w].invoices = {}
      BY <3>1 DEF LocksHold, LocksOf
    <3>4. \A k \in found : Pending(k)' /\ Exists(k)' /\ invoice'[Target(k)'].vendor = w
      BY <2>1 DEF Pending, Exists, Target
    <3>5. LocksOf(w)'
      BY <3>2, <3>3, <3>4 DEF LocksOf
    <3>6. QED
      BY <2>1, <3>2, <3>3, <3>5, OneLocker
  <2>4. ASSUME NEW k \in Keys, BankTakeRequest(w, k) PROVE LocksHold'
    <3> DEFINE tx == bankTx[w]
    <3>1. /\ tx # None /\ tx.phase = "requests" /\ tx \in BankTx
          /\ k \in tx.foundRequests /\ k \notin LockedRequests
          /\ bankTx' = [bankTx EXCEPT ![w] =
               [tx EXCEPT !.foundRequests = tx.foundRequests \ {k},
                          !.requests = tx.requests \cup {q \in {k} : Pending(q)}]]
      BY <2>4, OpenBankTx DEF BankTakeRequest
    <3>2. /\ bankTx'[w].phase = "requests"
          /\ bankTx'[w].foundRequests = tx.foundRequests \ {k}
          /\ bankTx'[w].requests = tx.requests \cup {q \in {k} : Pending(q)}
          /\ bankTx'[w].invoices = tx.invoices
      BY <3>1 DEF TypeOK, BankTx
    <3>3. LocksOf(w)
      BY <3>1 DEF LocksHold
    <3>4. \A u \in Vendors \ {w} : bankTx[u] # None =>
             bankTx'[w].requests \cap bankTx[u].requests = {}
      <4>1. \A u \in Vendors \ {w} : bankTx[u] # None =>
               tx.requests \cap bankTx[u].requests = {} /\ k \notin bankTx[u].requests
        BY <3>1, <3>3 DEF LocksOf, LockedRequests
      <4>2. QED
        BY <3>2, <4>1
    <3>5. \A q \in bankTx'[w].requests :
             Pending(q) /\ (Speaks(q) => invoice[Target(q)].vendor = w)
      BY <3>1, <3>2, <3>3 DEF LocksOf
    <3>6. LocksOf(w)'
      BY <2>1, <3>2, <3>3, <3>4, <3>5 DEF LocksOf, Pending, Exists, Speaks, Target
    <3>7. QED
      BY <2>1, <3>4, <3>6, OneLocker
  <2>5. CASE BankFindInvoices(w)
    <3>1. /\ bankTx[w] # None /\ bankTx[w].foundRequests = {} /\ bankTx[w] \in BankTx
          /\ bankTx' = [bankTx EXCEPT ![w] =
               [@ EXCEPT !.phase = "invoices", !.foundInvoices = AwaitingOf(w)]]
      BY <2>5, OpenBankTx DEF BankFindInvoices
    <3>2. /\ bankTx'[w].phase = "invoices"
          /\ bankTx'[w].foundRequests = {}
          /\ bankTx'[w].requests = bankTx[w].requests
          /\ bankTx'[w].foundInvoices = AwaitingOf(w)
          /\ bankTx'[w].invoices = bankTx[w].invoices
      BY <3>1 DEF TypeOK, BankTx
    <3>3. LocksOf(w)
      BY <3>1 DEF LocksHold
    <3>4. \A k \in bankTx[w].requests : Speaks(k) => Target(k) \in AwaitingOf(w)
      BY <3>1, <3>3, LockedRequest DEF LocksOf, Speaks, AwaitingOf
    <3>5. \A u \in Vendors \ {w} : bankTx[u] # None =>
             bankTx'[w].requests \cap bankTx[u].requests = {}
      BY <3>2, <3>3 DEF LocksOf
    <3>6. LocksOf(w)'
      BY <2>1, <3>2, <3>3, <3>4, <3>5 DEF LocksOf, Pending, Exists, Speaks, Target
    <3>7. QED
      BY <2>1, <3>5, <3>6, OneLocker
  <2>6. ASSUME NEW i \in Invoices, BankTakeInvoice(w, i) PROVE LocksHold'
    <3> DEFINE tx == bankTx[w]
    <3>1. /\ tx # None /\ tx.phase = "invoices" /\ tx \in BankTx /\ i \in tx.foundInvoices
          /\ bankTx' = [bankTx EXCEPT ![w] =
               [tx EXCEPT !.foundInvoices = tx.foundInvoices \ {i},
                          !.invoices = tx.invoices \cup ({i} \cap AwaitingOf(w))]]
      BY <2>6, OpenBankTx DEF BankTakeInvoice
    <3>2. /\ bankTx'[w].phase = "invoices"
          /\ bankTx'[w].foundRequests = tx.foundRequests
          /\ bankTx'[w].requests = tx.requests
          /\ bankTx'[w].foundInvoices = tx.foundInvoices \ {i}
          /\ bankTx'[w].invoices = tx.invoices \cup ({i} \cap AwaitingOf(w))
      BY <3>1 DEF TypeOK, BankTx
    <3>3. LocksOf(w)
      BY <3>1 DEF LocksHold
    <3>4. \A k \in tx.requests : Speaks(k) =>
             Target(k) \in bankTx'[w].foundInvoices \cup bankTx'[w].invoices
      <4>1. ASSUME NEW k \in tx.requests, Speaks(k), Target(k) = i PROVE i \in AwaitingOf(w)
        BY <3>1, <3>3, <4>1 DEF LocksOf, Speaks, AwaitingOf, BankTx
      <4>2. ASSUME NEW k \in tx.requests, Speaks(k)
            PROVE  Target(k) \in tx.foundInvoices \cup tx.invoices
        BY <3>1, <3>3, <4>2 DEF LocksOf
      <4>3. QED
        BY <3>2, <4>1, <4>2
    <3>5. \A u \in Vendors \ {w} : bankTx[u] # None =>
             bankTx'[w].requests \cap bankTx[u].requests = {}
      BY <3>2, <3>3 DEF LocksOf
    <3>6. \A j \in bankTx'[w].invoices :
             invoice[j].vendor = w /\ invoice[j].status = "AWAITING_APPROVAL"
      BY <3>2, <3>3 DEF LocksOf, AwaitingOf
    <3>7. LocksOf(w)'
      BY <2>1, <3>1, <3>2, <3>3, <3>4, <3>5, <3>6
         DEF LocksOf, Pending, Exists, Speaks, Target
    <3>8. QED
      BY <2>1, <3>5, <3>7, OneLocker
  <2>7. CASE BankTimeout(w)
    BY <2>1, <2>7, OneLocker DEF BankTimeout, TypeOK
  <2>8. QED
    BY <1>6, <2>2, <2>3, <2>4, <2>5, <2>6, <2>7 DEF BankSweeps
<1>9. ASSUME UNCHANGED <<invoice, request, bankTx>>
      PROVE  LocksHold'
  BY <1>9 DEF LocksHold, LocksOf, Pending, Exists, Speaks, Target
<1>10. CASE Submitting
  <2>1. ASSUME NEW k \in Keys, SubmitCommit(k) PROVE LocksHold'
    BY <1>1, <2>1 DEF SubmitCommit, LocksHold
  <2>2. QED
    BY <1>9, <1>10, <2>1 DEF Submitting, SubmitRead, SubmitStale, SubmitTimeout, tables
<1>11. CASE Deciding
  <2>1. ASSUME NEW k \in Keys, DecideStale(k) PROVE LocksHold'
    BY <1>2, <2>1 DEF DecideStale, LocksHold
  <2>2. ASSUME NEW k \in Keys, NEW m \in Approvers,
               DecideApprove(k, m) \/ DecideReject(k, m)
        PROVE  LocksHold'
    BY <1>3, <2>2 DEF DecideApprove, DecideReject, LocksHold
  <2>3. QED
    BY <1>9, <1>11, <2>1, <2>2
       DEF Deciding, DecideRead, DecideRecord, DecidePartial, DecideRefused,
           DecideTimeout, tables
<1>12. CASE Editing
  <2>1. ASSUME NEW i \in Invoices, NEW n \in Vendors, EditCommit(i, n) PROVE LocksHold'
    BY <1>4, <2>1 DEF EditCommit, LocksHold
  <2>2. QED
    BY <1>9, <1>12, <2>1 DEF Editing, EditRead, EditStale, EditTimeout, tables
<1>13. CASE Banking
  BY <1>5, <1>6, <1>13 DEF Banking, BankSweeps, LocksHold
<1>14. CASE UNCHANGED vars
  BY <1>9, <1>14 DEF vars
<1>15. QED
  BY <1>10, <1>11, <1>12, <1>13, <1>14 DEF Next

(* One more approval never lowers a count.                                 *)
LEMMA MoreApprovals ==
  ASSUME NEW T, IsFiniteSet(T), NEW S \in SUBSET T
  PROVE  /\ Cardinality(S) \in Nat
         /\ Cardinality(T) \in Nat
         /\ Cardinality(S) <= Cardinality(T)
BY FS_Subset, FS_CardinalityType

(* The approvals a transaction counts are finitely many.                   *)
LEMMA FiniteApprovals ==
  ASSUME TypeOK, NEW k \in Keys, NEW m, NEW n
  PROVE  /\ IsFiniteSet(approvals[k] \cup {m})
         /\ IsFiniteSet(approvals[k] \cup {m} \cup {n})
<1>1. IsFiniteSet(approvals[k])
  BY ApproverAssumption, FS_Subset DEF TypeOK
<1>2. IsFiniteSet(approvals[k] \cup {m})
  BY <1>1, FS_AddElement
<1>3. QED
  BY <1>2, FS_AddElement

(* A request whose evidence stays, with no decision newly opened.          *)
LEMMA DecisionsKept ==
  ASSUME NEW k \in Keys, DecisionsOf(k),
         Exists(k)', request'[k].initiator = request[k].initiator,
         request'[k].required = request[k].required,
         \/ request'[k].status = request[k].status
         \/ Pending(k) /\ request'[k].status = "INVALIDATED",
         approvals'[k] = approvals[k], rejections'[k] = rejections[k],
         \A m \in Members : decide'[k][m] \in {decide[k][m], "idle"}
  PROVE  DecisionsOf(k)'
BY DEF DecisionsOf, Decided, Pending

(* A decide transaction ends, and no other begins or moves on.             *)
LEMMA DecisionEnds ==
  ASSUME TypeOK, NEW k \in Keys, NEW m \in Members,
         decide' = [decide EXCEPT ![k][m] = "idle"]
  PROVE  /\ decide'[k][m] = "idle"
         /\ \A q \in Keys, n \in Members :
              decide'[q][n] = decide[q][n] \/ (q = k /\ n = m)
<1>1. decide \in [Keys -> [Members -> DecidePhase]]
  BY DEF TypeOK
<1>2. decide'[k] = [decide[k] EXCEPT ![m] = "idle"] /\ \A q \in Keys \ {k} : decide'[q] = decide[q]
  BY <1>1
<1>3. QED
  BY <1>1, <1>2

(* Decisions: what each member may still do, and what was counted.         *)
LEMMA NextDecisions ==
  ASSUME TypeOK, Inductive, [Next]_vars
  PROVE  DecisionsInOrder'
<1> USE DEF Inductive
<1>1. ASSUME NEW k \in Keys, SubmitCommit(k), NEW q \in Keys, Exists(q)'
      PROVE  DecisionsOf(q)'
  <2>1. CASE q = k
    <3>1. ~Exists(k) /\ request'[k].status = "PENDING"
      BY <1>1, SubmitCommitRows
    <3>2. approvals'[k] = {} /\ rejections'[k] = {} /\ \A m \in Members : decide'[k][m] = "idle"
      BY <1>1, <3>1 DEF SubmitCommit, KeysInOrder, Decided
    <3>3. QED
      BY <2>1, <3>1, <3>2 DEF DecisionsOf, Decided
  <2>2. CASE q # k
    <3>1. request'[q] = request[q] /\ Exists(q)
      BY <1>1, <2>2, SubmitCommitRows DEF Exists
    <3>2. QED
      BY <1>1, <3>1, DecisionsKept DEF SubmitCommit, DecisionsInOrder
  <2>3. QED
    BY <2>1, <2>2
<1>2. ASSUME NEW k \in Keys, DecideStale(k), NEW q \in Keys, Exists(q)'
      PROVE  DecisionsOf(q)'
  <2>1. CASE q = k
    <3>1. Pending(k) /\ Exists(k) /\ Becomes(k, "INVALIDATED")
      BY <1>2, DecideStaleRows DEF DecideStale, Pending
    <3>2. QED
      BY <1>2, <2>1, <3>1, DecisionsKept DEF DecideStale, DecisionsInOrder, Becomes
  <2>2. CASE q # k
    <3>1. request'[q] = request[q] /\ Exists(q)
      BY <1>2, <2>2, DecideStaleRows DEF Exists
    <3>2. QED
      BY <1>2, <3>1, DecisionsKept DEF DecideStale, DecisionsInOrder
  <2>3. QED
    BY <2>1, <2>2
<1>3. ASSUME NEW i \in Invoices, NEW v \in Vendors, EditCommit(i, v),
             NEW q \in Keys, Exists(q)'
      PROVE  DecisionsOf(q)'
  <2>1. \/ Pending(q) /\ Becomes(q, "INVALIDATED")
        \/ request'[q] = request[q]
    BY <1>3, EditCommitRows DEF PendingOf
  <2>2. Exists(q)
    BY <1>3, <2>1 DEF Exists, Pending
  <2>3. QED
    BY <1>3, <2>1, <2>2, DecisionsKept DEF EditCommit, DecisionsInOrder, Becomes
<1>4. ASSUME NEW v \in Vendors, BankCommit(v), NEW q \in Keys, Exists(q)'
      PROVE  DecisionsOf(q)'
  <2>1. \/ Pending(q) /\ Becomes(q, "INVALIDATED")
        \/ request'[q] = request[q]
    BY <1>4, BankCommitRows, LockedIsPending DEF BankCommit
  <2>2. Exists(q)
    BY <1>4, <2>1 DEF Exists, Pending
  <2>3. QED
    BY <1>4, <2>1, <2>2, DecisionsKept DEF BankCommit, DecisionsInOrder, Becomes
<1>5. ASSUME NEW k \in Keys, NEW m \in Approvers, DecideRead(k, m),
             NEW q \in Keys, Exists(q)'
      PROVE  DecisionsOf(q)'
  <2>1. DecisionsOf(q) /\ UNCHANGED tables /\ request' = request
    BY <1>5 DEF DecideRead, tables, Exists, DecisionsInOrder
  <2>2. \A p \in Members : decide'[q][p] # decide[q][p] =>
           q = k /\ p = m /\ decide'[q][p] = "checked"
    BY <1>5 DEF DecideRead, TypeOK
  <2>3. QED
    BY <1>5, <2>1, <2>2 DEF DecideRead, MayDecide, DecisionsOf, Decided, tables
<1>6. ASSUME NEW k \in Keys, NEW m \in Approvers,
             NEW o \in {"APPROVE", "REJECT"}, DecideRecord(k, m, o),
             NEW q \in Keys, Exists(q)'
      PROVE  DecisionsOf(q)'
  <2>1. DecisionsOf(q) /\ UNCHANGED tables
    BY <1>6 DEF DecideRecord, tables, Exists, DecisionsInOrder
  <2>2. \A p \in Members :
           \/ decide'[q][p] = decide[q][p]
           \/ /\ q = k /\ p = m /\ decide[q][p] # "idle"
              /\ decide'[q][p] = "approving"
                   => Cardinality(approvals[k] \cup {m}) >= request[k].required
    BY <1>6 DEF DecideRecord, TypeOK, Counted
  <2>3. QED
    BY <2>1, <2>2 DEF DecisionsOf, Decided, tables
<1>7. ASSUME NEW k \in Keys, NEW m \in Approvers,
             DecidePartial(k, m) \/ DecideApprove(k, m),
             NEW q \in Keys, Exists(q)'
      PROVE  DecisionsOf(q)'
  <2>1. /\ Exists(k) /\ m \in Members /\ decide[k][m] # "idle"
        /\ DecisionsOf(k) /\ request[k].required \in 1..2
    BY <1>7, DeciderHasRequest, ExistingRequest, ApproverAssumption
       DEF DecidePartial, DecideApprove, DecisionsInOrder
  <2>2. /\ approvals'[k] = approvals[k] \cup {m}
        /\ \A p \in Keys \ {k} : approvals'[p] = approvals[p]
        /\ rejections' = rejections
        /\ decide'[k][m] = "idle"
        /\ \A p \in Keys, n \in Members :
             decide'[p][n] = decide[p][n] \/ (p = k /\ n = m)
    <3>1. /\ approvals' = [approvals EXCEPT ![k] = @ \cup {m}]
          /\ rejections' = rejections
          /\ decide' = [decide EXCEPT ![k][m] = "idle"]
      BY <1>7 DEF DecidePartial, DecideApprove
    <3>2. QED
      BY <2>1, <3>1, DecisionEnds DEF TypeOK
  <2>3. CASE q = k
    <3>1. \/ request'[k] = request[k]
          \/ /\ Becomes(k, "APPROVED")
             /\ decide[k][m] = "approving"
             /\ request[k].status \in {"PENDING", "APPROVED"}
      BY <1>7, <2>1, VerdictRows
         DEF DecidePartial, DecideApprove, Verdict, MayBecome
    <3>2. request'[k].required = request[k].required /\ request'[k].initiator = request[k].initiator
      BY <3>1 DEF Becomes
    <3>3. /\ Cardinality(approvals[k]) \in Nat
          /\ Cardinality(approvals'[k]) \in Nat
          /\ Cardinality(approvals[k]) <= Cardinality(approvals'[k])
      BY <2>2, FiniteApprovals, MoreApprovals
    <3>4. /\ request'[k].initiator \notin Decided(k)'
          /\ \A n \in Members : decide'[k][n] # "idle" =>
               n # request'[k].initiator /\ n \notin Decided(k)'
      BY <2>1, <2>2, <3>2 DEF DecisionsOf, Decided
    <3>5. ASSUME NEW n \in Members, decide'[k][n] = "approving"
          PROVE  Cardinality(approvals'[k] \cup {n}) >= request'[k].required
      <4>1. decide[k][n] = "approving" /\ Cardinality(approvals[k] \cup {n}) >= request[k].required
        BY <2>1, <2>2, <3>5 DEF DecisionsOf
      <4>2. /\ Cardinality(approvals[k] \cup {n}) \in Nat
            /\ Cardinality(approvals'[k] \cup {n}) \in Nat
            /\ Cardinality(approvals[k] \cup {n}) <= Cardinality(approvals'[k] \cup {n})
        BY <2>2, FiniteApprovals, MoreApprovals
      <4>3. QED
        BY <2>1, <3>2, <4>1, <4>2
    <3>6. request'[k].status = "APPROVED" => Cardinality(approvals'[k]) >= request'[k].required
      BY <2>1, <2>2, <3>1, <3>2, <3>3 DEF DecisionsOf, Becomes
    <3>7. rejections'[k] # {} => request'[k].status = "REJECTED"
      BY <2>1, <2>2, <3>1 DEF DecisionsOf, Becomes
    <3>8. QED
      BY <2>3, <3>4, <3>5, <3>6, <3>7 DEF DecisionsOf
  <2>4. CASE q # k
    <3>1. request'[q] = request[q]
      BY <1>7, <2>1, <2>4, VerdictRows DEF DecidePartial, DecideApprove, Verdict
    <3>2. QED
      BY <1>7, <2>2, <2>4, <3>1, DecisionsKept DEF DecisionsInOrder, Exists
  <2>5. QED
    BY <2>3, <2>4
<1>8. ASSUME NEW k \in Keys, NEW m \in Approvers, DecideReject(k, m),
             NEW q \in Keys, Exists(q)'
      PROVE  DecisionsOf(q)'
  <2>1. /\ Exists(k) /\ m \in Members /\ decide[k][m] # "idle" /\ DecisionsOf(k)
    BY <1>8, DeciderHasRequest, ApproverAssumption DEF DecideReject, DecisionsInOrder
  <2>2. /\ rejections'[k] = rejections[k] \cup {m}
        /\ \A p \in Keys \ {k} : rejections'[p] = rejections[p]
        /\ approvals' = approvals
        /\ decide'[k][m] = "idle"
        /\ \A p \in Keys, n \in Members :
             decide'[p][n] = decide[p][n] \/ (p = k /\ n = m)
    <3>1. /\ rejections' = [rejections EXCEPT ![k] = @ \cup {m}]
          /\ approvals' = approvals
          /\ decide' = [decide EXCEPT ![k][m] = "idle"]
      BY <1>8 DEF DecideReject
    <3>2. QED
      BY <2>1, <3>1, DecisionEnds DEF TypeOK
  <2>3. CASE q = k
    <3>1. Becomes(k, "REJECTED")
      BY <1>8, <2>1, VerdictRows DEF DecideReject, Verdict
    <3>2. QED
      BY <2>1, <2>2, <2>3, <3>1 DEF DecisionsOf, Decided, Becomes
  <2>4. CASE q # k
    <3>1. request'[q] = request[q]
      BY <1>8, <2>1, <2>4, VerdictRows DEF DecideReject, Verdict
    <3>2. QED
      BY <1>8, <2>2, <2>4, <3>1, DecisionsKept DEF DecisionsInOrder, Exists
  <2>5. QED
    BY <2>3, <2>4
<1>9. ASSUME NEW k \in Keys, NEW m \in Approvers,
             DecideRefused(k, m) \/ DecideTimeout(k, m),
             NEW q \in Keys, Exists(q)'
      PROVE  DecisionsOf(q)'
  <2>1. UNCHANGED tables /\ decide' = [decide EXCEPT ![k][m] = "idle"]
    BY <1>9 DEF DecideRefused, DecideTimeout
  <2>2. \A p \in Members : decide'[q][p] \in {decide[q][p], "idle"}
    BY <2>1 DEF TypeOK
  <2>3. QED
    BY <1>9, <2>1, <2>2, DecisionsKept DEF tables, DecisionsInOrder, Exists
<1>10. ASSUME UNCHANGED <<request, approvals, rejections, decide>>
       PROVE  DecisionsInOrder'
  BY <1>10 DEF DecisionsInOrder, DecisionsOf, Exists, Decided
<1>11. QED
  BY SweepsOnly, <1>1, <1>2, <1>3, <1>4, <1>5, <1>6, <1>7, <1>8, <1>9, <1>10
     DEF Next, vars, tables, Submitting, Deciding, Editing, Banking, DecisionsInOrder,
         SubmitRead, SubmitStale, SubmitTimeout, EditRead, EditStale, EditTimeout,
         BankSweeps

(* What every step does to the versions: an invoice's never falls, and a   *)
(* request keeps the one it was made for.                                  *)
VersionsMove(i) == invoice'[i].version \in {invoice[i].version, invoice[i].version + 1}

SameSubject(k) == /\ Exists(k)
                  /\ request'[k].invoice = request[k].invoice
                  /\ request'[k].invoiceVersion = request[k].invoiceVersion
                  /\ request'[k].bank = request[k].bank

(* OneRequestPerVersion survives a step that opens no request and takes no *)
(* invoice back to an earlier version.                                     *)
LEMMA NoNewRequest ==
  ASSUME TypeOK, OneRequestPerVersion,
         \A i \in Invoices : VersionsMove(i),
         \A k \in Keys : Exists(k)' => SameSubject(k)
  PROVE  OneRequestPerVersion'
<1>1. ASSUME NEW k \in Keys, Exists(k)'
      PROVE  request'[k].invoiceVersion <= invoice'[Target(k)'].version
  <2>1. /\ request[k].invoiceVersion \in Nat
        /\ Target(k) \in Invoices
        /\ invoice[Target(k)].version \in Nat
        /\ request[k].invoiceVersion <= invoice[Target(k)].version
    BY <1>1, ExistingRequest, InvoiceRow DEF SameSubject, OneRequestPerVersion, Target
  <2>2. Target(k)' = Target(k) /\ request'[k].invoiceVersion = request[k].invoiceVersion
    BY <1>1 DEF SameSubject, Target
  <2>3. QED
    BY <2>1, <2>2 DEF VersionsMove
<1>2. ASSUME NEW k \in Keys, NEW q \in Keys \ {k}, Exists(k)', Exists(q)',
             Target(q)' = Target(k)'
      PROVE  request'[q].invoiceVersion # request'[k].invoiceVersion
  BY <1>2 DEF SameSubject, OneRequestPerVersion, Target
<1>3. QED
  BY <1>1, <1>2 DEF OneRequestPerVersion

(* A request keeps its hold on a version, or the version moves on.         *)
LEMMA VersionKept ==
  ASSUME TypeOK, VersionsInOrder, NEW k \in Keys, SameSubject(k),
         \/ invoice'[Target(k)].version = invoice[Target(k)].version + 1
         \/ /\ invoice'[Target(k)].version = invoice[Target(k)].version
            /\ invoice'[Target(k)].bank = invoice[Target(k)].bank
            /\ \/ invoice'[Target(k)].status # "NEEDS_REVIEW"
               \/ invoice'[Target(k)].status = invoice[Target(k)].status
            /\ \/ edit'[Target(k)] \in {edit[Target(k)], None}
               \/ edit'[Target(k)].invalidates
  PROVE  VersionOf(k)'
<1>1. /\ request[k].invoiceVersion \in Nat
      /\ Target(k) \in Invoices
      /\ invoice[Target(k)].version \in Nat
      /\ request[k].invoiceVersion <= invoice[Target(k)].version
  BY ExistingRequest, InvoiceRow DEF SameSubject, VersionsInOrder, OneRequestPerVersion, Target
<1>2. Target(k)' = Target(k) /\ VersionOf(k)
  BY DEF SameSubject, Target, VersionsInOrder
<1>3. CASE invoice'[Target(k)].version = invoice[Target(k)].version + 1
  BY <1>1, <1>2, <1>3 DEF VersionOf, SameSubject
<1>4. CASE /\ invoice'[Target(k)].version = invoice[Target(k)].version
           /\ invoice'[Target(k)].bank = invoice[Target(k)].bank
           /\ \/ invoice'[Target(k)].status # "NEEDS_REVIEW"
              \/ invoice'[Target(k)].status = invoice[Target(k)].status
           /\ \/ edit'[Target(k)] \in {edit[Target(k)], None}
              \/ edit'[Target(k)].invalidates
  BY <1>1, <1>2, <1>4 DEF VersionOf, SameSubject
<1>5. QED
  BY <1>3, <1>4

(* An edit keeps a version its invoice has had.                            *)
LEMMA EditsKept ==
  ASSUME TypeOK, VersionsInOrder,
         \A i \in Invoices : /\ VersionsMove(i)
                             /\ edit'[i] \in {edit[i], None}
  PROVE  \A i \in Invoices : edit'[i] # None => edit'[i].version <= invoice'[i].version
<1>1. ASSUME NEW i \in Invoices, edit'[i] # None
      PROVE  edit'[i].version <= invoice'[i].version
  <2>1. edit'[i] = edit[i] /\ edit[i].version <= invoice[i].version
    BY <1>1 DEF VersionsInOrder
  <2>2. edit[i].version \in Nat /\ invoice[i].version \in Nat
    BY <1>1, <2>1, InvoiceRow DEF TypeOK, EditTx
  <2>3. QED
    BY <2>1, <2>2 DEF VersionsMove
<1>2. QED
  BY <1>1

(* VersionsInOrder survives a step that only moves invoices forward, or    *)
(* keeps their version and bank account.                                   *)
LEMMA VersionsSettled ==
  ASSUME TypeOK, VersionsInOrder,
         \A i \in Invoices : /\ VersionsMove(i)
                             /\ edit'[i] \in {edit[i], None},
         \A k \in Keys : Exists(k)' =>
            /\ SameSubject(k)
            /\ \/ invoice'[Target(k)].version = invoice[Target(k)].version + 1
               \/ /\ invoice'[Target(k)].version = invoice[Target(k)].version
                  /\ invoice'[Target(k)].bank = invoice[Target(k)].bank
                  /\ \/ invoice'[Target(k)].status # "NEEDS_REVIEW"
                     \/ invoice'[Target(k)].status = invoice[Target(k)].status
  PROVE  VersionsInOrder'
<1>1. OneRequestPerVersion'
  BY NoNewRequest DEF VersionsInOrder
<1>2. \A k \in Keys : Exists(k)' => Target(k) \in Invoices
  BY ExistingRequest DEF SameSubject, Target
<1>3. \A k \in Keys : Exists(k)' => VersionOf(k)'
  BY <1>2, VersionKept
<1>4. QED
  BY <1>1, <1>3, EditsKept DEF VersionsInOrder

(* Versions: a version of an invoice is edited, or submitted, never both.  *)
LEMMA NextVersions ==
  ASSUME TypeOK, Inductive, [Next]_vars
  PROVE  VersionsInOrder'
<1> USE DEF Inductive
<1>1. ASSUME NEW k \in Keys, SubmitCommit(k) PROVE VersionsInOrder'
  <2> DEFINE i == submit[k].invoice
  <2>1. edit' = edit
    BY <1>1 DEF SubmitCommit
  <2>2. /\ i \in Invoices /\ invoice[i].version \in Nat
        /\ invoice'[i].version = invoice[i].version + 1
    BY <1>1, SubmitCommitRows
  <2>3. \A j \in Invoices : VersionsMove(j)
    BY <1>1, <2>2, SubmitCommitRows DEF VersionsMove
  <2>4. /\ Target(k)' = i
        /\ request'[k].invoiceVersion = invoice'[i].version
        /\ invoice'[i].status = "AWAITING_APPROVAL"
        /\ invoice'[i].bank = request'[k].bank
    BY <1>1, SubmitCommitRows DEF Target
  <2>5. ASSUME NEW q \in Keys \ {k}, Exists(q)'
        PROVE  /\ SameSubject(q)
               /\ Target(q) \in Invoices
               /\ Target(q)' = Target(q)
               /\ request[q].invoiceVersion \in Nat
               /\ request[q].invoiceVersion <= invoice[Target(q)].version
               /\ invoice[Target(q)].version \in Nat
    <3>1. request'[q] = request[q] /\ Exists(q)
      BY <1>1, <2>5, SubmitCommitRows DEF Exists
    <3>2. QED
      BY <3>1, ExistingRequest, InvoiceRow
         DEF SameSubject, Target, VersionsInOrder, OneRequestPerVersion
  <2>6. OneRequestPerVersion'
    <3>1. ASSUME NEW q \in Keys, Exists(q)'
          PROVE  request'[q].invoiceVersion <= invoice'[Target(q)'].version
      <4>1. CASE q = k
        BY <2>2, <2>4, <4>1
      <4>2. CASE q # k
        BY <2>3, <2>5, <3>1, <4>2 DEF VersionsMove, SameSubject
      <4>3. QED
        BY <4>1, <4>2
    <3>2. ASSUME NEW q \in Keys \ {k}, Exists(q)', Target(q) = i
          PROVE  request'[q].invoiceVersion # request'[k].invoiceVersion
      BY <2>2, <2>4, <2>5, <3>2 DEF SameSubject
    <3>3. ASSUME NEW q \in Keys, NEW p \in Keys \ {q}, Exists(q)', Exists(p)',
                 Target(p)' = Target(q)'
          PROVE  request'[p].invoiceVersion # request'[q].invoiceVersion
      <4>1. CASE q = k
        BY <2>4, <2>5, <3>2, <3>3, <4>1
      <4>2. CASE p = k
        BY <2>4, <2>5, <3>2, <3>3, <4>2
      <4>3. CASE q # k /\ p # k
        BY <2>5, <3>3, <4>3 DEF VersionsInOrder, OneRequestPerVersion, SameSubject
      <4>4. QED
        BY <4>1, <4>2, <4>3
    <3>4. QED
      BY <3>1, <3>3 DEF OneRequestPerVersion
  <2>7. VersionOf(k)'
    <3>1. edit'[i] # None => edit'[i].version # invoice'[i].version
      <4>1. edit[i] # None => edit[i].version \in Nat /\ edit[i].version <= invoice[i].version
        BY <2>2 DEF VersionsInOrder, TypeOK, EditTx
      <4>2. QED
        BY <2>1, <2>2, <4>1
    <3>2. QED
      BY <2>4, <3>1 DEF VersionOf
  <2>8. \A q \in Keys \ {k} : Exists(q)' => VersionOf(q)'
    <3>1. ASSUME NEW q \in Keys \ {k}, Exists(q)' PROVE VersionOf(q)'
      <4>1. CASE Target(q) = i
        BY <2>2, <2>5, <3>1, <4>1, VersionKept
      <4>2. CASE Target(q) # i
        <5>1. invoice'[Target(q)] = invoice[Target(q)]
          BY <1>1, <2>5, <3>1, <4>2, SubmitCommitRows
        <5>2. QED
          BY <2>1, <2>5, <3>1, <5>1, VersionKept
      <4>3. QED
        BY <4>1, <4>2
    <3>2. QED
      BY <3>1
  <2>9. \A j \in Invoices : edit'[j] # None => edit'[j].version <= invoice'[j].version
    BY <2>1, <2>3, EditsKept
  <2>10. QED
    BY <2>6, <2>7, <2>8, <2>9 DEF VersionsInOrder
<1>2. ASSUME NEW k \in Keys, DecideStale(k) PROVE VersionsInOrder'
  <2>1. edit' = edit /\ Exists(k)
    BY <1>2 DEF DecideStale, Pending
  <2>2. \A i \in Invoices :
          \/ invoice'[i].version = invoice[i].version + 1
          \/ invoice'[i] = invoice[i]
    BY <1>2, DecideStaleRows
  <2>3. \A q \in Keys : Exists(q)' => SameSubject(q)
    BY <1>2, <2>1, DecideStaleRows DEF Becomes, SameSubject, Exists
  <2>4. \A q \in Keys : Exists(q)' => Target(q) \in Invoices
    BY <2>3, ExistingRequest DEF SameSubject, Target
  <2>5. QED
    BY <2>1, <2>2, <2>3, <2>4, VersionsSettled DEF VersionsMove
<1>3. ASSUME NEW k \in Keys, NEW m \in Approvers,
             DecideApprove(k, m) \/ DecideReject(k, m)
      PROVE  VersionsInOrder'
  <2>1. edit' = edit /\ Exists(k)
    BY <1>3, DeciderHasRequest DEF DecideApprove, DecideReject
  <2>2. PICK s \in {"APPROVED", "REJECTED"} : Verdict(k, s)
    BY <1>3 DEF DecideApprove, DecideReject, Verdict
  <2>3. \A i \in Invoices :
          /\ invoice'[i].version = invoice[i].version
          /\ invoice'[i].bank = invoice[i].bank
          /\ invoice'[i].status \in {invoice[i].status, s}
    BY <2>1, <2>2, VerdictRows
  <2>4. \A q \in Keys : Exists(q)' => SameSubject(q)
    BY <2>1, <2>2, VerdictRows DEF Becomes, SameSubject, Exists
  <2>5. \A q \in Keys : Exists(q)' => Target(q) \in Invoices
    BY <2>4, ExistingRequest DEF SameSubject, Target
  <2>6. QED
    BY <2>1, <2>2, <2>3, <2>4, <2>5, VersionsSettled DEF VersionsMove
<1>4. ASSUME NEW i \in Invoices, NEW v \in Vendors, EditCommit(i, v)
      PROVE  VersionsInOrder'
  <2>1. \A j \in Invoices : edit'[j] \in {edit[j], None}
    BY <1>4 DEF EditCommit, TypeOK
  <2>2. \A j \in Invoices :
          \/ invoice'[j].version = invoice[j].version + 1
          \/ invoice'[j] = invoice[j]
    BY <1>4, EditCommitRows
  <2>3. \A q \in Keys : Exists(q)' => SameSubject(q)
    BY <1>4, EditCommitRows DEF PendingOf, Pending, Becomes, SameSubject, Exists
  <2>4. \A q \in Keys : Exists(q)' => Target(q) \in Invoices
    BY <2>3, ExistingRequest DEF SameSubject, Target
  <2>5. QED
    BY <2>1, <2>2, <2>3, <2>4, VersionsSettled DEF VersionsMove
<1>5. ASSUME NEW v \in Vendors, BankCommit(v) PROVE VersionsInOrder'
  <2>1. edit' = edit
    BY <1>5 DEF BankCommit
  <2>2. \A j \in Invoices :
          \/ invoice'[j].version = invoice[j].version + 1
          \/ invoice'[j] = invoice[j]
    BY <1>5, BankCommitRows
  <2>3. \A q \in Keys : Exists(q)' => SameSubject(q)
    BY <1>5, BankCommitRows, LockedIsPending
       DEF BankCommit, Pending, Becomes, SameSubject, Exists
  <2>4. \A q \in Keys : Exists(q)' => Target(q) \in Invoices
    BY <2>3, ExistingRequest DEF SameSubject, Target
  <2>5. QED
    BY <2>1, <2>2, <2>3, <2>4, VersionsSettled DEF VersionsMove
<1>6. ASSUME NEW i \in Invoices, EditRead(i) PROVE VersionsInOrder'
  <2>1. /\ UNCHANGED <<invoice, request>>
        /\ invoice[i].status \in {"NEEDS_REVIEW", "AWAITING_APPROVAL"}
        /\ edit'[i].version = invoice[i].version
        /\ edit'[i].invalidates <=> invoice[i].status = "AWAITING_APPROVAL"
        /\ \A j \in Invoices \ {i} : edit'[j] = edit[j]
    BY <1>6 DEF EditRead, tables, TypeOK
  <2>2. OneRequestPerVersion'
    BY <2>1 DEF VersionsInOrder, OneRequestPerVersion, Exists, Target
  <2>3. ASSUME NEW q \in Keys, Exists(q)' PROVE VersionOf(q)'
    <3>1. Exists(q) /\ Target(q) \in Invoices /\ Target(q)' = Target(q) /\ VersionOf(q)
      BY <2>1, <2>3, ExistingRequest DEF Exists, Target, VersionsInOrder
    <3>2. QED
      BY <2>1, <3>1 DEF VersionOf
  <2>4. \A j \in Invoices : edit'[j] # None => edit'[j].version <= invoice'[j].version
    BY <2>1, InvoiceRow DEF VersionsInOrder
  <2>5. QED
    BY <2>2, <2>3, <2>4 DEF VersionsInOrder
<1>7. ASSUME NEW i \in Invoices, EditStale(i) \/ EditTimeout(i)
      PROVE  VersionsInOrder'
  <2>1. UNCHANGED <<invoice, request>> /\ \A j \in Invoices : edit'[j] \in {edit[j], None}
    BY <1>7 DEF EditStale, EditTimeout, tables, TypeOK
  <2>2. \A q \in Keys : Exists(q)' => SameSubject(q)
    BY <2>1 DEF SameSubject, Exists
  <2>3. QED
    BY <2>1, <2>2, VersionsSettled DEF VersionsMove
<1>8. ASSUME UNCHANGED <<invoice, request, edit>>
      PROVE  VersionsInOrder'
  BY <1>8 DEF VersionsInOrder, OneRequestPerVersion, VersionOf, Exists, Target
<1>9. QED
  BY SweepsOnly, <1>1, <1>2, <1>3, <1>4, <1>5, <1>6, <1>7, <1>8
     DEF Next, vars, tables, Submitting, Deciding, Editing, Banking,
         SubmitRead, SubmitStale, SubmitTimeout, DecideRead, DecideRecord,
         DecidePartial, DecideRefused, DecideTimeout,
         BankSweeps

(* Every step of every handler keeps the strengthening.                    *)
LEMMA NextInductive ==
  ASSUME TypeOK, Inductive, [Next]_vars
  PROVE  Inductive'
BY NextKeys, NextLocks, NextDecisions, NextVersions DEF Inductive

-----------------------------------------------------------------------------
(* The evidence behind an invoice's status                                 *)

LEMMA InitBacked == Init => ApprovedInvoiceIsBacked /\ AwaitingInvoiceHasRequest
BY DEF Init, ApprovedInvoiceIsBacked, AwaitingInvoiceHasRequest

(* Request k is made for the version, and the bank account, of invoice i.  *)
Backs(k, i) ==
  /\ Exists(k)
  /\ Target(k) = i
  /\ request[k].invoiceVersion = invoice[i].version
  /\ request[k].bank = invoice[i].bank

(* A request backs an invoice as long as neither row changes.              *)
LEMMA BacksKept ==
  ASSUME NEW k \in Keys, NEW i \in Invoices, Backs(k, i),
         request'[k] = request[k], invoice'[i] = invoice[i]
  PROVE  Backs(k, i)'
BY DEF Backs, Exists, Target

(* What ApprovedInvoiceIsBacked says of one invoice, and the same for      *)
(* AwaitingInvoiceHasRequest.                                              *)
Backed(i) == invoice[i].status = "APPROVED" =>
               \E k \in Keys : Backs(k, i) /\ request[k].status = "APPROVED"
Awaited(i) == invoice[i].status = "AWAITING_APPROVAL" =>
                \E k \in Keys : Backs(k, i) /\ request[k].status = "PENDING"

(* The two properties of invoices, one invoice at a time.                  *)
LEMMA Unfolded ==
  /\ ApprovedInvoiceIsBacked <=> \A i \in Invoices : Backed(i)
  /\ AwaitingInvoiceHasRequest <=> \A i \in Invoices : Awaited(i)
BY DEF ApprovedInvoiceIsBacked, AwaitingInvoiceHasRequest, Backed, Awaited, Backs, Pending

(* Every step keeps the evidence behind every invoice's status.            *)
LEMMA NextBacked ==
  ASSUME TypeOK, Inductive, [Next]_vars,
         \A i \in Invoices : Backed(i) /\ Awaited(i)
  PROVE  \A i \in Invoices : Backed(i)' /\ Awaited(i)'
<1> USE DEF Inductive
<1>1. ASSUME NEW k \in Keys, SubmitCommit(k), NEW i \in Invoices
      PROVE  Backed(i)' /\ Awaited(i)'
  <2>1. CASE i = submit[k].invoice
    BY <1>1, <2>1, SubmitCommitRows DEF Backed, Awaited, Backs, Target
  <2>2. CASE i # submit[k].invoice
    <3>1. invoice'[i] = invoice[i]
      BY <1>1, <2>2, SubmitCommitRows
    <3>2. \A q \in Keys : Backs(q, i) => request'[q] = request[q]
      BY <1>1, SubmitCommitRows DEF Backs
    <3>3. QED
      BY <3>1, <3>2, BacksKept DEF Backed, Awaited
  <2>3. QED
    BY <2>1, <2>2
<1>2. ASSUME NEW k \in Keys, DecideStale(k), NEW i \in Invoices
      PROVE  Backed(i)' /\ Awaited(i)'
  <2>1. Pending(k) /\ request[k].status = "PENDING"
    BY <1>2 DEF DecideStale, Pending
  <2>2. CASE invoice'[i] = invoice[i]
    <3>1. ASSUME NEW q \in Keys, Backs(q, i),
                 \/ request[q].status = "APPROVED"
                 \/ invoice[i].status = "AWAITING_APPROVAL"
          PROVE  request'[q] = request[q]
      <4>1. CASE q = k
        <5>1. Speaks(k)
          BY <2>1, <3>1, <4>1 DEF Backs, Speaks
        <5>2. invoice'[i].version = invoice[i].version + 1 /\ invoice[i].version \in Nat
          BY <1>2, <3>1, <4>1, <5>1, DecideStaleRows, InvoiceRow DEF Backs
        <5>3. QED
          BY <2>2, <5>2
      <4>2. CASE q # k
        BY <1>2, <4>2, DecideStaleRows
      <4>3. QED
        BY <4>1, <4>2
    <3>2. QED
      BY <2>2, <3>1, BacksKept DEF Backed, Awaited
  <2>3. CASE invoice'[i] # invoice[i]
    <3>1. invoice'[i].status = "NEEDS_REVIEW"
      BY <1>2, <2>3, DecideStaleRows
    <3>2. QED
      BY <3>1 DEF Backed, Awaited
  <2>4. QED
    BY <2>2, <2>3
<1>3. ASSUME NEW k \in Keys, NEW m \in Approvers,
             DecideApprove(k, m) \/ DecideReject(k, m), NEW i \in Invoices
      PROVE  Backed(i)' /\ Awaited(i)'
  <2>1. Exists(k)
    BY <1>3, DeciderHasRequest DEF DecideApprove, DecideReject
  <2>2. PICK s \in {"APPROVED", "REJECTED"} :
           Verdict(k, s) /\ MayBecome(k, s) /\ (s = "APPROVED" => InvoiceGuard(k))
    BY <1>3 DEF DecideApprove, DecideReject, Verdict
  <2>3. CASE i = Target(k)
    <3>1. /\ invoice'[i].status = s
          /\ invoice'[i].version = invoice[i].version
          /\ invoice'[i].bank = invoice[i].bank
      BY <2>1, <2>2, <2>3, VerdictRows
    <3>2. CASE s = "REJECTED"
      BY <3>1, <3>2 DEF Backed, Awaited
    <3>3. CASE s = "APPROVED"
      <4>1. Becomes(k, "APPROVED") /\ \A q \in Keys \ {k} : request'[q] = request[q]
        BY <2>1, <2>2, <3>3, VerdictRows
      <4>2. PICK q \in Keys : Backs(q, i) /\ (q = k \/ request[q].status = "APPROVED")
        <5>1. \A q \in Keys : Exists(q) /\ Target(q) = i
                /\ request[q].invoiceVersion = invoice[i].version => Backs(q, i)
          BY DEF VersionsInOrder, VersionOf, Backs
        <5>2. InvoiceGuard(k)
          BY <2>2, <3>3
        <5>3. CASE invoice[i].status = "APPROVED"
          BY <5>3 DEF Backed
        <5>4. CASE request[k].invoiceVersion = invoice[i].version
          BY <2>1, <2>3, <5>1, <5>4
        <5>5. CASE \E q \in Keys : /\ Exists(q)
                                   /\ request[q].invoice = i
                                   /\ request[q].invoiceVersion = invoice[i].version
                                   /\ request[q].status = "APPROVED"
          BY <5>1, <5>5 DEF Target
        <5>6. QED
          BY <2>3, <5>2, <5>3, <5>4, <5>5 DEF InvoiceGuard
      <4>3. Backs(q, i)' /\ request'[q].status = "APPROVED"
        BY <2>3, <3>1, <4>1, <4>2 DEF Backs, Becomes, Target, Exists
      <4>4. QED
        BY <3>1, <3>3, <4>3 DEF Backed, Awaited
    <3>4. QED
      BY <3>2, <3>3
  <2>4. CASE i # Target(k)
    <3>1. invoice'[i] = invoice[i]
      BY <2>1, <2>2, <2>4, VerdictRows
    <3>2. \A q \in Keys : Backs(q, i) => request'[q] = request[q]
      BY <2>1, <2>2, <2>4, VerdictRows DEF Backs
    <3>3. QED
      BY <3>1, <3>2, BacksKept DEF Backed, Awaited
  <2>5. QED
    BY <2>3, <2>4
<1>4. ASSUME NEW j \in Invoices, NEW v \in Vendors, EditCommit(j, v), NEW i \in Invoices
      PROVE  Backed(i)' /\ Awaited(i)'
  <2>1. CASE i = j
    <3>1. CASE edit[i].invalidates
      BY <1>4, <2>1, <3>1, EditCommitRows DEF Backed, Awaited
    <3>2. CASE ~edit[i].invalidates
      <4>1. /\ edit[i] # None /\ edit[i].version = invoice[i].version
            /\ invoice'[i].status = invoice[i].status
        BY <1>4, <2>1, <3>2, EditCommitRows DEF EditCommit
      <4>2. \A q \in Keys : ~Backs(q, i)
        BY <3>2, <4>1 DEF Backs, VersionsInOrder, VersionOf
      <4>3. QED
        BY <4>1, <4>2 DEF Backed, Awaited
    <3>3. QED
      BY <3>1, <3>2
  <2>2. CASE i # j
    <3>1. invoice'[i] = invoice[i]
      BY <1>4, <2>2, EditCommitRows
    <3>2. \A q \in Keys : Backs(q, i) => request'[q] = request[q]
      BY <1>4, <2>2, EditCommitRows DEF Backs, PendingOf
    <3>3. QED
      BY <3>1, <3>2, BacksKept DEF Backed, Awaited
  <2>3. QED
    BY <2>1, <2>2
<1>5. ASSUME NEW v \in Vendors, BankCommit(v), NEW i \in Invoices
      PROVE  Backed(i)' /\ Awaited(i)'
  <2>1. bankTx[v] # None /\ BankReady(v)
    BY <1>5 DEF BankCommit
  <2>2. CASE i \in bankTx[v].invoices
    BY <1>5, <2>2, BankCommitRows DEF Backed, Awaited
  <2>3. CASE i \notin bankTx[v].invoices
    <3>1. invoice'[i] = invoice[i]
      BY <1>5, <2>3, BankCommitRows
    <3>2. ASSUME NEW q \in Keys, Backs(q, i),
                 \/ request[q].status = "APPROVED"
                 \/ invoice[i].status = "AWAITING_APPROVAL"
          PROVE  request'[q] = request[q]
      <4>1. q \notin bankTx[v].requests
        <5>1. SUFFICES ASSUME q \in bankTx[v].requests PROVE FALSE
          OBVIOUS
        <5>2. Pending(q) /\ LocksOf(v)
          BY <2>1, <5>1, LockedIsPending DEF LocksHold
        <5>3. Speaks(q)
          BY <3>2, <5>2 DEF Pending, Backs, Speaks
        <5>4. bankTx[v].phase = "invoices" /\ bankTx[v].foundInvoices = {}
          BY <2>1, <5>1, <5>2 DEF BankReady, LocksOf
        <5>5. QED
          BY <2>3, <3>2, <5>1, <5>2, <5>3, <5>4 DEF LocksOf, Backs
      <4>2. QED
        BY <1>5, <4>1, BankCommitRows
    <3>3. QED
      BY <3>1, <3>2, BacksKept DEF Backed, Awaited
  <2>4. QED
    BY <2>2, <2>3
<1>6. ASSUME UNCHANGED <<invoice, request>>
      PROVE  \A i \in Invoices : Backed(i)' /\ Awaited(i)'
  BY <1>6 DEF Backed, Awaited, Backs, Exists, Target
<1>7. QED
  BY SweepsOnly, <1>1, <1>2, <1>3, <1>4, <1>5, <1>6
     DEF Next, vars, tables, Submitting, Deciding, Editing, Banking,
         SubmitRead, SubmitStale, SubmitTimeout, DecideRead, DecideRecord,
         DecidePartial, DecideRefused, DecideTimeout, EditRead, EditStale, EditTimeout,
         BankSweeps

-----------------------------------------------------------------------------
(* The invariant, and what follows from it                                 *)

Invariant == /\ TypeOK
             /\ Inductive
             /\ ApprovedInvoiceIsBacked
             /\ AwaitingInvoiceHasRequest

(* The invariant of all handlers together, from which the theorems follow. *)
LEMMA Invariance == Spec => []Invariant
<1>1. Init => Invariant
  BY InitType, InitInductive, InitBacked DEF Invariant
<1>2. Invariant /\ [Next]_vars => Invariant'
  <2> SUFFICES ASSUME Invariant, [Next]_vars PROVE Invariant'
    OBVIOUS
  <2>1. TypeOK'
    BY NextType DEF Invariant, Inductive
  <2>2. Inductive'
    BY NextInductive DEF Invariant
  <2>3. \A i \in Invoices : Backed(i)' /\ Awaited(i)'
    BY NextBacked, Unfolded DEF Invariant
  <2>4. ApprovedInvoiceIsBacked' /\ AwaitingInvoiceHasRequest'
    BY <2>3 DEF ApprovedInvoiceIsBacked, AwaitingInvoiceHasRequest,
                Backed, Awaited, Backs, Pending
  <2>5. QED
    BY <2>1, <2>2, <2>4 DEF Invariant
<1>3. QED
  BY <1>1, <1>2, PTL DEF Spec

(* The tables and the open transactions keep their types, whatever the     *)
(* interleaving of submit, decide, update and addBankVersion.              *)
THEOREM TypeCorrect == Spec => []TypeOK
BY Invariance, PTL DEF Invariant

(* The strengthening itself: the row locks of addBankVersion hold, counts  *)
(* are never overtaken, a version is edited or submitted and never both.   *)
THEOREM InductiveHolds == Spec => []Inductive
BY Invariance, PTL DEF Invariant

(* Dual control in decide: an APPROVED request has its quorum of distinct  *)
(* approvers, its initiator not among them, and no rejection.              *)
THEOREM QuorumCorrect == Spec => []ApprovalHasQuorum
<1>1. Inductive => ApprovalHasQuorum
  BY DEF Inductive, DecisionsInOrder, DecisionsOf, ApprovalHasQuorum
<1>2. QED
  BY <1>1, InductiveHolds, PTL

(* What an APPROVED invoice says is what an APPROVED request was made for: *)
(* neither update nor addBankVersion gets between the two (the triggers).  *)
THEOREM ApprovalBacked == Spec => []ApprovedInvoiceIsBacked
BY Invariance, PTL DEF Invariant

(* An invoice that awaits approval has a PENDING request for its version   *)
(* and bank account.                                                       *)
LEMMA AwaitingHasRequest == Spec => []AwaitingInvoiceHasRequest
BY Invariance, PTL DEF Invariant

(* Concurrent submits of one version never both succeed.                   *)
THEOREM OneRequest == Spec => []OneRequestPerVersion
<1>1. Inductive => OneRequestPerVersion
  BY DEF Inductive, VersionsInOrder
<1>2. QED
  BY <1>1, InductiveHolds, PTL

-----------------------------------------------------------------------------
(* Finality, and the promise of DualControl                                *)

(* The first of two open transactions to complete a request decides it:    *)
(* what it was made for, and its verdict, are never rewritten.             *)
THEOREM VerdictsFinal == Spec => CompletedRequestIsFinal
<1>1. ASSUME TypeOK, TypeOK', Inductive, [Next]_vars, NEW k \in Keys, Exists(k)
      PROVE  /\ request'[k] # None
             /\ request'[k] = [request[k] EXCEPT !.status = request'[k].status]
             /\ ~Pending(k) => request'[k].status = request[k].status
  <2>1. RequestSteps(k) /\ request[k] \in Request
    BY <1>1, EveryRowSteps, ExistingRequest
  <2>2. request'[k] # None
    BY <1>1, <2>1 DEF RequestSteps, Becomes, Exists
  <2>3. request'[k] \in Request
    BY <1>1, <2>2 DEF TypeOK
  <2>4. /\ request'[k].invoice = request[k].invoice
        /\ request'[k].invoiceVersion = request[k].invoiceVersion
        /\ request'[k].bank = request[k].bank
        /\ request'[k].required = request[k].required
        /\ request'[k].initiator = request[k].initiator
        /\ ~Pending(k) => request'[k].status = request[k].status
    BY <1>1, <2>1 DEF RequestSteps, Becomes, Pending
  <2>5. request'[k] = [request[k] EXCEPT !.status = request'[k].status]
    BY <2>1, <2>3, <2>4 DEF Request
  <2>6. QED
    BY <2>2, <2>4, <2>5
<1>2. TypeOK /\ TypeOK' /\ Inductive /\ [Next]_vars =>
        [\A k \in Keys : Exists(k) =>
           /\ request'[k] # None
           /\ request'[k] = [request[k] EXCEPT !.status = request'[k].status]
           /\ ~Pending(k) => request'[k].status = request[k].status]_vars
  BY <1>1
<1>3. QED
  BY <1>2, TypeCorrect, InductiveHolds, PTL DEF Spec, CompletedRequestIsFinal

(* A new bank account of one vendor touches no other vendor's approvals    *)
(* and no verdict, however long its transaction was open.                  *)
THEOREM FreezesScoped == Spec => FreezeIsScoped
<1>1. ASSUME TypeOK, Inductive, [Next]_vars, NEW v \in Vendors, bank'[v] # bank[v]
      PROVE  \A i \in Invoices :
               invoice[i].vendor # v \/ invoice[i].status # "AWAITING_APPROVAL"
                 => invoice'[i] = invoice[i]
  <2>1. PICK w \in Vendors : BankCommit(w)
    <3>1. CASE Submitting
      BY <1>1, <3>1 DEF Submitting, SubmitRead, SubmitCommit, SubmitStale,
                        SubmitTimeout, tables
    <3>2. CASE Deciding
      <4>1. bank' = bank
        BY <3>2 DEF Deciding, DecideRead, DecideStale, DecideRecord, DecidePartial,
                    DecideApprove, DecideReject, DecideRefused, DecideTimeout, tables
      <4>2. QED
        BY <1>1, <4>1
    <3>3. CASE Editing
      BY <1>1, <3>3 DEF Editing, EditRead, EditCommit, EditStale, EditTimeout, tables
    <3>4. CASE Banking
      BY <1>1, <3>4, SweepsOnly DEF Banking, BankSweeps, tables
    <3>5. CASE UNCHANGED vars
      BY <1>1, <3>5 DEF vars
    <3>6. QED
      BY <1>1, <3>1, <3>2, <3>3, <3>4, <3>5 DEF Next
  <2>2. w = v /\ bankTx[v] # None
    BY <1>1, <2>1 DEF BankCommit, TypeOK
  <2>3. QED
    BY <1>1, <2>1, <2>2, BankCommitRows, LockedInvoice DEF Inductive
<1>2. TypeOK /\ Inductive /\ [Next]_vars =>
        [\A v \in Vendors : bank'[v] # bank[v] =>
           \A i \in Invoices :
             invoice[i].vendor # v \/ invoice[i].status # "AWAITING_APPROVAL"
               => invoice'[i] = invoice[i]]_vars
  BY <1>1
<1>3. QED
  BY <1>2, TypeCorrect, InductiveHolds, PTL DEF Spec, FreezeIsScoped

(* The state function that Abstract maps verdict to, with its value after  *)
(* the steps that void a set S of requests.                                *)
Verdicts == [k \in Keys |-> IF Exists(k) THEN request[k].status ELSE "NONE"]
Quorums  == [k \in Keys |-> IF Exists(k) THEN request[k].required ELSE 0]
Owners   == [k \in Keys |-> IF Exists(k) THEN request[k].initiator ELSE None]

(* Invalidating a set of pending requests, seen from DualControl.          *)
LEMMA Voids ==
  ASSUME NEW S \in SUBSET Keys,
         \A k \in Keys : IF k \in S THEN Pending(k) /\ Becomes(k, "INVALIDATED")
                                    ELSE request'[k] = request[k]
  PROVE  /\ \A k \in S : Verdicts[k] = "PENDING"
         /\ Verdicts' = [k \in Keys |-> IF k \in S THEN "INVALIDATED" ELSE Verdicts[k]]
         /\ Quorums' = Quorums
         /\ Owners' = Owners
<1>1. \A k \in S : Exists(k)
  BY DEF Pending
<1>2. QED
  BY <1>1 DEF Verdicts, Quorums, Owners, Pending, Becomes, Exists

(* Changing the status of one request, seen from DualControl.              *)
LEMMA Verdicted ==
  ASSUME NEW k \in Keys, Exists(k), NEW s, Becomes(k, s),
         \A q \in Keys \ {k} : request'[q] = request[q]
  PROVE  /\ Verdicts' = [Verdicts EXCEPT ![k] = s]
         /\ Quorums' = Quorums
         /\ Owners' = Owners
BY DEF Verdicts, Quorums, Owners, Becomes, Exists

(* An open decision is one that DualControl allows.                        *)
LEMMA MayStillDecide ==
  ASSUME Inductive, NEW k \in Keys, Exists(k), NEW m \in Members, decide[k][m] # "idle"
  PROVE  /\ Verdicts[k] # "NONE" \/ request[k].status = "NONE"
         /\ Verdicts[k] = request[k].status
         /\ Quorums[k] = request[k].required
         /\ m # Owners[k]
         /\ m \notin approvals[k] \cup rejections[k]
BY DEF Inductive, DecisionsInOrder, DecisionsOf, Decided, Verdicts, Quorums, Owners

(* The instance counts with a Cardinality of its own.                      *)
LEMMA SameCardinality ==
  ASSUME NEW S
  PROVE  Abstract!Cardinality(S) = Cardinality(S)
BY DEF Cardinality, Abstract!Cardinality

(* The initial states of the tables are initial states of DualControl.     *)
LEMMA InitPromise == Init => Abstract!Init
BY DEF Init, Abstract!Init, Exists

(* Every step of every handler is a step of DualControl, or none.          *)
LEMMA NextPromise ==
  ASSUME TypeOK, Inductive, [Next]_vars
  PROVE  [Abstract!Next]_(Abstract!vars)
<1> USE DEF Inductive
<1>1. ASSUME NEW k \in Keys, SubmitCommit(k) PROVE Abstract!Next
  <2> DEFINE tx == submit[k]
  <2>1. /\ Verdicts[k] = "NONE"
        /\ Verdicts' = [Verdicts EXCEPT ![k] = "PENDING"]
        /\ Quorums' = [Quorums EXCEPT ![k] = tx.required]
        /\ Owners' = [Owners EXCEPT ![k] = tx.initiator]
        /\ tx.required \in 1..2 /\ tx.initiator \in Members
    <3>1. /\ ~Exists(k) /\ Exists(k)'
          /\ request'[k].status = "PENDING"
          /\ request'[k].required = tx.required
          /\ request'[k].initiator = tx.initiator
          /\ tx.required \in 1..2 /\ tx.initiator \in Members
          /\ \A q \in Keys \ {k} : request'[q] = request[q]
      BY <1>1, SubmitCommitRows
    <3>2. QED
      BY <3>1 DEF Verdicts, Quorums, Owners, Exists
  <2>2. UNCHANGED <<approvals, rejections>>
    BY <1>1 DEF SubmitCommit
  <2>3. PICK p \in Members, n \in 1..2 : p = tx.initiator /\ n = tx.required
    BY <2>1
  <2>4. Abstract!Open(k, p, n)
    BY <2>1, <2>2, <2>3 DEF Abstract!Open, Verdicts, Quorums, Owners
  <2>5. QED
    BY <2>4 DEF Abstract!Next
<1>2. ASSUME NEW S \in SUBSET Keys, UNCHANGED <<approvals, rejections>>,
             \A k \in Keys : IF k \in S THEN Pending(k) /\ Becomes(k, "INVALIDATED")
                                        ELSE request'[k] = request[k]
      PROVE  Abstract!Next
  <2>1. Abstract!Void(S)
    BY <1>2, Voids DEF Abstract!Void, Verdicts, Quorums, Owners
  <2>2. QED
    BY <2>1 DEF Abstract!Next
<1>3. ASSUME NEW k \in Keys, DecideStale(k) PROVE Abstract!Next
  <2>1. UNCHANGED <<approvals, rejections>> /\ Pending(k)
    BY <1>3 DEF DecideStale
  <2>2. \A q \in Keys : IF q \in {k} THEN Pending(q) /\ Becomes(q, "INVALIDATED")
                                    ELSE request'[q] = request[q]
    BY <1>3, <2>1, DecideStaleRows
  <2>3. QED
    BY <1>2, <2>1, <2>2
<1>4. ASSUME NEW i \in Invoices, NEW v \in Vendors, EditCommit(i, v)
      PROVE  Abstract!Next
  <2> DEFINE S == IF edit[i].invalidates THEN PendingOf(i) ELSE {}
  <2>1. S \in SUBSET Keys /\ \A k \in S : Pending(k)
    BY DEF PendingOf
  <2>2. UNCHANGED <<approvals, rejections>>
    BY <1>4 DEF EditCommit
  <2>3. \A k \in Keys : IF k \in S THEN Pending(k) /\ Becomes(k, "INVALIDATED")
                                    ELSE request'[k] = request[k]
    BY <1>4, <2>1, EditCommitRows
  <2>4. QED
    BY <1>2, <2>1, <2>2, <2>3
<1>5. ASSUME NEW v \in Vendors, BankCommit(v) PROVE Abstract!Next
  <2>1. UNCHANGED <<approvals, rejections>> /\ bankTx[v] # None
    BY <1>5 DEF BankCommit
  <2>2. bankTx[v].requests \in SUBSET Keys
    BY <2>1, OpenBankTx
  <2>3. QED
    BY <1>2, <1>5, <2>1, <2>2, BankCommitRows, LockedIsPending
<1>6. ASSUME NEW k \in Keys, NEW m \in Approvers, DecidePartial(k, m)
      PROVE  Abstract!Next
  <2>1. /\ Exists(k) /\ m \in Members /\ decide[k][m] # "idle"
        /\ request[k].status \in RequestStatus
    BY <1>6, DeciderHasRequest, ExistingRequest, ApproverAssumption DEF DecidePartial
  <2>2. /\ approvals' = [approvals EXCEPT ![k] = @ \cup {m}]
        /\ UNCHANGED <<request, rejections>>
    BY <1>6 DEF DecidePartial
  <2>3. Abstract!Endorse(k, m)
    BY <2>1, <2>2, MayStillDecide
       DEF Abstract!Endorse, Abstract!MayStillDecide, Exists, Verdicts, Quorums, Owners,
           RequestStatus
  <2>4. QED
    BY <2>1, <2>3 DEF Abstract!Next
<1>7. ASSUME NEW k \in Keys, NEW m \in Approvers, DecideApprove(k, m)
      PROVE  Abstract!Next
  <2>1. /\ Exists(k) /\ m \in Members /\ decide[k][m] = "approving"
        /\ request[k].status \in {"PENDING", "APPROVED"}
        /\ Cardinality(approvals[k] \cup {m}) >= request[k].required
    BY <1>7, DeciderHasRequest, ApproverAssumption
       DEF DecideApprove, MayBecome, DecisionsInOrder, DecisionsOf
  <2>2. /\ approvals' = [approvals EXCEPT ![k] = @ \cup {m}]
        /\ UNCHANGED rejections
        /\ Verdict(k, "APPROVED")
    BY <1>7 DEF DecideApprove, Verdict
  <2>3. /\ Verdicts' = [Verdicts EXCEPT ![k] = "APPROVED"]
        /\ Quorums' = Quorums /\ Owners' = Owners
    BY <2>1, <2>2, VerdictRows, Verdicted
  <2>4. /\ Verdicts[k] \in {"PENDING", "APPROVED"}
        /\ m # Owners[k]
        /\ m \notin approvals[k] \cup rejections[k]
        /\ Cardinality(approvals[k] \cup {m}) >= Quorums[k]
    BY <2>1, MayStillDecide
  <2>5. Abstract!EndorseAndApprove(k, m)
    <3>1. Abstract!MayStillDecide(k, m)
      BY <2>4 DEF Abstract!MayStillDecide, Verdicts, Owners
    <3>2. Abstract!Cardinality(approvals[k] \cup {m}) >= Quorums[k]
      BY <2>4, SameCardinality
    <3>3. QED
      BY <2>2, <2>3, <2>4, <3>1, <3>2
         DEF Abstract!EndorseAndApprove, Verdicts, Quorums, Owners
  <2>6. QED
    BY <2>1, <2>5 DEF Abstract!Next
<1>8. ASSUME NEW k \in Keys, NEW m \in Approvers, DecideReject(k, m)
      PROVE  Abstract!Next
  <2>1. /\ Exists(k) /\ m \in Members /\ decide[k][m] # "idle"
        /\ request[k].status \in {"PENDING", "REJECTED"}
    BY <1>8, DeciderHasRequest, ApproverAssumption DEF DecideReject, MayBecome
  <2>2. /\ rejections' = [rejections EXCEPT ![k] = @ \cup {m}]
        /\ UNCHANGED approvals
        /\ Verdict(k, "REJECTED")
    BY <1>8 DEF DecideReject, Verdict
  <2>3. /\ Verdicts' = [Verdicts EXCEPT ![k] = "REJECTED"]
        /\ Quorums' = Quorums /\ Owners' = Owners
    BY <2>1, <2>2, VerdictRows, Verdicted
  <2>4. Abstract!Object(k, m)
    BY <2>1, <2>2, <2>3, MayStillDecide
       DEF Abstract!Object, Abstract!MayStillDecide, Verdicts, Quorums, Owners
  <2>5. QED
    BY <2>1, <2>4 DEF Abstract!Next
<1>9. ASSUME UNCHANGED <<request, approvals, rejections>>
      PROVE  UNCHANGED Abstract!vars
  BY <1>9 DEF Abstract!vars, Exists
<1>10. QED
  BY SweepsOnly, <1>1, <1>3, <1>4, <1>5, <1>6, <1>7, <1>8, <1>9
     DEF Next, vars, tables, Submitting, Deciding, Editing, Banking,
         SubmitRead, SubmitStale, SubmitTimeout, DecideRead, DecideRecord,
         DecideRefused, DecideTimeout, EditRead, EditStale, EditTimeout,
         BankSweeps

(* The whole workflow implements DualControl: requests are opened, decided *)
(* and invalidated in every interleaving as its five actions allow.        *)
THEOREM ImplementsDualControl == Spec => KeepsDualControl
<1>1. Init => Abstract!Init
  BY InitPromise
<1>2. TypeOK /\ Inductive /\ [Next]_vars => [Abstract!Next]_(Abstract!vars)
  BY NextPromise
<1>3. QED
  BY <1>1, <1>2, TypeCorrect, InductiveHolds, PTL
     DEF Spec, KeepsDualControl, Abstract!Spec

-----------------------------------------------------------------------------
(* The history: which approvals may be for an account that is not the      *)
(* latest, and which requests no decision completes                        *)

(* The latest account changes with the commit of addBankVersion alone.     *)
LEMMA BankChanges ==
  ASSUME Next, \A v \in Vendors : ~BankCommit(v)
  PROVE  bank' = bank
<1>1. CASE Submitting
  BY <1>1 DEF Submitting, SubmitRead, SubmitCommit, SubmitStale, SubmitTimeout, tables
<1>2. CASE Deciding
  BY <1>2 DEF Deciding, DecideRead, DecideStale, DecideRecord, DecidePartial,
              DecideApprove, DecideReject, DecideRefused, DecideTimeout, tables
<1>3. CASE Editing
  BY <1>3 DEF Editing, EditRead, EditCommit, EditStale, EditTimeout, tables
<1>4. CASE Banking
  BY <1>4, SweepsOnly DEF Banking, BankSweeps, tables
<1>5. QED
  BY <1>1, <1>2, <1>3, <1>4 DEF Next

(* No other handler touches what addBankVersion remembers.                 *)
LEMMA BankTxChanges ==
  ASSUME Next, \A v \in Vendors : ~BankCommit(v) /\ ~BankSweeps(v)
  PROVE  bankTx' = bankTx
<1>1. CASE Submitting
  BY <1>1 DEF Submitting, SubmitRead, SubmitCommit, SubmitStale, SubmitTimeout
<1>2. CASE Deciding
  BY <1>2 DEF Deciding, DecideRead, DecideStale, DecideRecord, DecidePartial,
              DecideApprove, DecideReject, DecideRefused, DecideTimeout
<1>3. CASE Editing
  BY <1>3 DEF Editing, EditRead, EditCommit, EditStale, EditTimeout
<1>4. CASE Banking
  BY <1>4 DEF Banking, BankSweeps
<1>5. QED
  BY <1>1, <1>2, <1>3, <1>4 DEF Next

(* Only the commit of submit makes a request.                              *)
LEMMA NewRequest ==
  ASSUME TypeOK, Inductive, Next, NEW k \in Keys, ~Exists(k), Exists(k)'
  PROVE  SubmitCommit(k)
<1> USE DEF Inductive
<1>1. request'[k] # request[k]
  BY DEF Exists
<1>2. ASSUME NEW q \in Keys, SubmitCommit(q) PROVE SubmitCommit(k)
  BY <1>1, <1>2, SubmitCommitRows
<1>3. ASSUME NEW q \in Keys, DecideStale(q) PROVE FALSE
  BY <1>1, <1>3, DecideStaleRows DEF DecideStale, Pending
<1>4. ASSUME NEW q \in Keys, NEW m \in Approvers,
             DecideApprove(q, m) \/ DecideReject(q, m)
      PROVE  FALSE
  <2>1. Exists(q)
    BY <1>4, DeciderHasRequest DEF DecideApprove, DecideReject
  <2>2. PICK s \in {"APPROVED", "REJECTED"} : Verdict(q, s)
    BY <1>4 DEF DecideApprove, DecideReject, Verdict
  <2>3. QED
    BY <1>1, <2>1, <2>2, VerdictRows
<1>5. ASSUME NEW j \in Invoices, NEW v \in Vendors, EditCommit(j, v) PROVE FALSE
  BY <1>1, <1>5, EditCommitRows DEF PendingOf, Pending
<1>6. ASSUME NEW v \in Vendors, BankCommit(v) PROVE FALSE
  BY <1>1, <1>6, BankCommitRows, LockedIsPending DEF BankCommit, Pending
<1>7. ASSUME request' = request PROVE FALSE
  BY <1>1, <1>7
<1>8. QED
  BY <1>2, <1>3, <1>4, <1>5, <1>6, <1>7, SweepsOnly
     DEF Next, tables, Submitting, Deciding, Editing, Banking, BankSweeps,
         SubmitRead, SubmitStale, SubmitTimeout, DecideRead, DecideRecord,
         DecidePartial, DecideRefused, DecideTimeout, EditRead, EditStale, EditTimeout

(* A request that fits its invoice goes on to fit as long as it is PENDING *)
(* and its vendor gets no new account: every edit, submission or decision  *)
(* that moves the invoice to another version ends the request.             *)
LEMMA FitsKept ==
  ASSUME TypeOK, Inductive, Next, NEW k \in Keys, Exists(k), Pending(k)', Fits(k),
         bank'[VendorOf(Target(k))] = bank[VendorOf(Target(k))]
  PROVE  /\ Fits(k)'
         /\ VendorOf(Target(k))' = VendorOf(Target(k))
<1> USE DEF Inductive
<1> DEFINE i == Target(k)
<1>1. /\ i \in Invoices /\ Target(k)' = i /\ request'[k] = request[k] /\ Pending(k)
      /\ request[k].invoiceVersion = invoice[i].version
      /\ request[k].bank = bank[invoice[i].vendor]
  BY PendingUnchanged, ExistingRequest DEF Fits, VendorOf, Target, Pending, Exists
<1> DEFINE Stays == /\ invoice'[i].version = invoice[i].version
                    /\ invoice'[i].vendor = invoice[i].vendor
<1>2. ASSUME NEW q \in Keys, SubmitCommit(q) PROVE Stays
  <2>1. invoice[i].status # "NEEDS_REVIEW"
    BY <1>1 DEF VersionsInOrder, VersionOf
  <2>2. i # submit[q].invoice
    BY <1>2, <2>1, SubmitCommitRows
  <2>3. QED
    BY <1>1, <1>2, <2>2, SubmitCommitRows
<1>3. ASSUME NEW q \in Keys, DecideStale(q) PROVE Stays
  <2>1. Exists(q) /\ q # k
    BY <1>1, <1>3, DecideStaleRows DEF DecideStale, Becomes, Pending
  <2>2. ~(Target(q) = i /\ Speaks(q))
    BY <1>1, <2>1 DEF Speaks, VersionsInOrder, OneRequestPerVersion
  <2>3. QED
    BY <1>1, <1>3, <2>2, DecideStaleRows
<1>4. ASSUME NEW q \in Keys, NEW m \in Approvers,
             DecideApprove(q, m) \/ DecideReject(q, m)
      PROVE  Stays
  <2>1. Exists(q)
    BY <1>4, DeciderHasRequest DEF DecideApprove, DecideReject
  <2>2. PICK s \in {"APPROVED", "REJECTED"} : Verdict(q, s)
    BY <1>4 DEF DecideApprove, DecideReject, Verdict
  <2>3. QED
    BY <1>1, <2>1, <2>2, VerdictRows
<1>5. ASSUME NEW j \in Invoices, NEW v \in Vendors, EditCommit(j, v) PROVE Stays
  <2>1. SUFFICES ASSUME j = i PROVE FALSE
    BY <1>1, <1>5, EditCommitRows
  <2>2. edit[i] # None /\ edit[i].version = invoice[i].version
    BY <1>5, <2>1 DEF EditCommit
  <2>3. edit[i].invalidates
    BY <1>1, <2>2 DEF VersionsInOrder, VersionOf
  <2>4. Becomes(k, "INVALIDATED")
    BY <1>1, <1>5, <2>1, <2>3, EditCommitRows DEF PendingOf
  <2>5. QED
    BY <1>1, <2>4 DEF Becomes, Pending
<1>6. ASSUME NEW v \in Vendors, BankCommit(v) PROVE Stays
  <2>1. v # invoice[i].vendor
    <3>1. bank'[v] # bank[v]
      BY <1>6 DEF BankCommit, TypeOK
    <3>2. QED
      BY <3>1 DEF VendorOf
  <2>2. i \notin bankTx[v].invoices
    BY <1>6, <2>1, LockedInvoice DEF BankCommit
  <2>3. QED
    BY <1>1, <1>6, <2>2, BankCommitRows
<1>7. ASSUME invoice' = invoice PROVE Stays
  BY <1>7
<1>8. Stays
  BY <1>2, <1>3, <1>4, <1>5, <1>6, <1>7, SweepsOnly
     DEF Next, tables, Submitting, Deciding, Editing, Banking, BankSweeps,
         SubmitRead, SubmitStale, SubmitTimeout, DecideRead, DecideRecord,
         DecidePartial, DecideRefused, DecideTimeout, EditRead, EditStale, EditTimeout
<1>9. QED
  BY <1>1, <1>8 DEF Fits, VendorOf

(* A commit of a bank account ends the requests that no one kept from its  *)
(* sweep, so that those that stay PENDING are other vendors'.              *)
LEMMA SweepEnds ==
  ASSUME TypeOK, Inductive, NEW v \in Vendors, BankCommit(v),
         NEW k \in Keys, Exists(k), request[k].bank > 0, Fits(k), Swept(k), Pending(k)'
  PROVE  v # VendorOf(Target(k))
<1> USE DEF Inductive
<1>1. SUFFICES ASSUME v = VendorOf(Target(k)) PROVE FALSE
  OBVIOUS
<1>2. bankTx[v] # None /\ BankReady(v) /\ LocksOf(v)
  BY DEF BankCommit, LocksHold
<1>3. bank[v] # 0
  BY <1>1, ExistingRequest DEF Fits
<1>4. k \in bankTx[v].requests
  BY <1>1, <1>2, <1>3 DEF Swept, Sweeping, BankReady, LocksOf
<1>5. Becomes(k, "INVALIDATED")
  BY <1>4, BankCommitRows
<1>6. QED
  BY <1>5 DEF Becomes, Pending

(* The sweep of a vendor finds, and keeps, what it has to end.             *)
LEMMA SweptKept ==
  ASSUME TypeOK, Inductive, NEW v \in Vendors, BankSweeps(v),
         NEW k \in Keys, Pending(k), VendorOf(Target(k)) \in Vendors, Swept(k)
  PROVE  Swept(k)'
<1> DEFINE w == VendorOf(Target(k))
<1>1. UNCHANGED <<invoice, request>> /\ \A u \in Vendors \ {v} : bankTx'[u] = bankTx[u]
  BY SweepsOnly
     DEF tables, BankSweeps, BankInsert, BankFindRequests, BankTakeRequest,
         BankFindInvoices, BankTakeInvoice, BankTimeout, TypeOK
<1>2. VendorOf(Target(k))' = w
  BY <1>1 DEF VendorOf, Target
<1>3. CASE v # w
  <2>1. bankTx'[w] = bankTx[w]
    BY <1>1, <1>3
  <2>2. QED
    BY <1>2, <2>1 DEF Swept, Sweeping
<1>4. CASE v = w
  <2> DEFINE tx == bankTx[w]
  <2>1. CASE BankInsert(v)
    <3>1. bankTx'[w] = [phase |-> "inserted", foundRequests |-> {}, requests |-> {},
                        foundInvoices |-> {}, invoices |-> {}]
      BY <1>4, <2>1 DEF BankInsert, TypeOK
    <3>2. QED
      BY <1>2, <3>1 DEF Swept, Sweeping
  <2>2. CASE BankFindRequests(v)
    <3> DEFINE found == {q \in Keys : Pending(q) /\ invoice[Target(q)].vendor = w}
    <3>1. /\ tx # None /\ tx \in BankTx
          /\ bankTx' = [bankTx EXCEPT ![w] =
               [@ EXCEPT !.phase = "requests", !.foundRequests = found]]
      BY <1>4, <2>2, OpenBankTx DEF BankFindRequests
    <3>2. bankTx'[w].foundRequests = found
      BY <3>1 DEF TypeOK, BankTx
    <3>3. k \in found
      BY DEF VendorOf
    <3>4. QED
      BY <1>2, <3>2, <3>3 DEF Swept
  <2>3. ASSUME NEW q \in Keys, BankTakeRequest(v, q) PROVE Swept(k)'
    <3>1. /\ tx # None /\ tx \in BankTx /\ tx.phase = "requests"
          /\ bankTx' = [bankTx EXCEPT ![w] =
               [tx EXCEPT !.foundRequests = tx.foundRequests \ {q},
                          !.requests = tx.requests \cup {p \in {q} : Pending(p)}]]
      BY <1>4, <2>3, OpenBankTx DEF BankTakeRequest
    <3>2. /\ bankTx'[w].foundRequests = tx.foundRequests \ {q}
          /\ bankTx'[w].requests = tx.requests \cup {p \in {q} : Pending(p)}
      BY <3>1 DEF TypeOK, BankTx
    <3>3. k \in tx.foundRequests \cup tx.requests
      BY <3>1 DEF Swept, Sweeping
    <3>4. QED
      BY <1>2, <3>2, <3>3 DEF Swept
  <2>4. CASE BankFindInvoices(v) \/ \E i \in Invoices : BankTakeInvoice(v, i)
    <3>1. tx # None /\ tx.phase # "inserted" /\ tx \in BankTx
      BY <1>4, <2>4, OpenBankTx DEF BankFindInvoices, BankTakeInvoice
    <3> DEFINE SameRequests == /\ bankTx'[w].foundRequests = tx.foundRequests
                               /\ bankTx'[w].requests = tx.requests
    <3>2. SameRequests
      <4>1. CASE BankFindInvoices(v)
        <5>1. bankTx' = [bankTx EXCEPT ![w] =
                [@ EXCEPT !.phase = "invoices", !.foundInvoices = AwaitingOf(w)]]
          BY <1>4, <4>1 DEF BankFindInvoices
        <5>2. QED
          BY <3>1, <5>1 DEF TypeOK, BankTx
      <4>2. ASSUME NEW i \in Invoices, BankTakeInvoice(v, i) PROVE SameRequests
        <5>1. bankTx' = [bankTx EXCEPT ![w] =
                [tx EXCEPT !.foundInvoices = tx.foundInvoices \ {i},
                           !.invoices = tx.invoices \cup ({i} \cap AwaitingOf(w))]]
          BY <1>4, <4>2 DEF BankTakeInvoice
        <5>2. QED
          BY <3>1, <5>1 DEF TypeOK, BankTx
      <4>3. QED
        BY <2>4, <4>1, <4>2
    <3>3. QED
      BY <1>2, <3>1, <3>2 DEF Swept, Sweeping
  <2>5. CASE BankTimeout(v)
    BY <1>2, <1>4, <2>5 DEF BankTimeout, TypeOK, Swept, Sweeping
  <2>6. QED
    BY <2>1, <2>2, <2>3, <2>4, <2>5 DEF BankSweeps
<1>5. QED
  BY <1>3, <1>4

(* A request that did not escape is for its vendor's latest account, and   *)
(* no sweep misses it.                                                     *)
LEMMA NextUnescaped ==
  ASSUME TypeOK, Inductive, AccountsInOrder, HNext,
         NEW k \in Keys, Pending(k)', k \notin escaped'
  PROVE  Fits(k)' /\ Swept(k)'
<1> USE DEF Inductive
<1>1. Next /\ [Next]_vars
  BY DEF HNext
<1>2. CASE Exists(k)
  <2>1. /\ Pending(k) /\ k \notin escaped /\ request'[k] = request[k] /\ Target(k)' = Target(k)
        /\ Target(k) \in Invoices /\ VendorOf(Target(k)) \in Vendors /\ request[k].bank > 0
    <3>1. request'[k] = request[k] /\ Target(k)' = Target(k) /\ Target(k) \in Invoices
      BY <1>1, <1>2, PendingUnchanged, ExistingRequest DEF Target
    <3>2. Pending(k) /\ k \notin escaped
      BY <3>1 DEF Pending, Exists, HNext, NoteEscape
    <3>3. QED
      BY <1>2, <3>1, <3>2, InvoiceRow DEF VendorOf, AccountsInOrder
  <2>2. Fits(k) /\ Swept(k)
    BY <2>1 DEF AccountsInOrder
  <2>3. bank'[VendorOf(Target(k))] = bank[VendorOf(Target(k))]
    <3>1. ASSUME NEW v \in Vendors, BankCommit(v)
          PROVE  bank'[VendorOf(Target(k))] = bank[VendorOf(Target(k))]
      BY <1>2, <2>1, <2>2, <3>1, SweepEnds DEF BankCommit, TypeOK
    <3>2. QED
      BY <1>1, <3>1, BankChanges
  <2>4. Fits(k)' /\ VendorOf(Target(k))' = VendorOf(Target(k))
    BY <1>1, <1>2, <2>2, <2>3, FitsKept
  <2>5. Swept(k)'
    <3>1. CASE bankTx' = bankTx
      BY <2>2, <2>4, <3>1 DEF Swept, Sweeping
    <3>2. ASSUME NEW v \in Vendors, BankCommit(v) PROVE Swept(k)'
      <4>1. v # VendorOf(Target(k))
        BY <1>2, <2>1, <2>2, <3>2, SweepEnds
      <4>2. bankTx'[VendorOf(Target(k))] = bankTx[VendorOf(Target(k))]
        BY <2>1, <3>2, <4>1 DEF BankCommit, TypeOK
      <4>3. QED
        BY <2>2, <2>4, <4>2 DEF Swept, Sweeping
    <3>3. ASSUME NEW v \in Vendors, BankSweeps(v) PROVE Swept(k)'
      BY <2>1, <2>2, <3>3, SweptKept
    <3>4. QED
      BY <1>1, <3>1, <3>2, <3>3, BankTxChanges
  <2>6. QED
    BY <2>4, <2>5
<1>3. CASE ~Exists(k)
  <2>1. SubmitCommit(k)
    BY <1>1, <1>3, NewRequest DEF Pending
  <2>0. PICK i \in Invoices : i = submit[k].invoice
    BY <2>1, SubmitCommitRows
  <2>2. submit[k].bank = bank[VendorOf(i)] /\ ~Sweeping(VendorOf(i))
    <3>1. NoteEscape
      BY DEF HNext
    <3>2. QED
      BY <1>3, <2>0, <3>1 DEF NoteEscape
  <2>3. /\ Target(k)' = i
        /\ request'[k].invoiceVersion = invoice'[i].version
        /\ request'[k].bank = submit[k].bank
        /\ VendorOf(i)' = VendorOf(i)
    BY <2>0, <2>1, SubmitCommitRows DEF Target, VendorOf
  <2>4. bank' = bank /\ bankTx' = bankTx
    BY <2>1 DEF SubmitCommit
  <2>5. VendorOf(Target(k))' = VendorOf(i)
    BY <2>3 DEF VendorOf
  <2>6. QED
    BY <2>2, <2>3, <2>4, <2>5 DEF Fits, Swept, Sweeping
<1>4. QED
  BY <1>2, <1>3

(* A member's decision begins with a read of the request and its invoice.  *)
LEMMA DecisionBegins ==
  ASSUME TypeOK, Next, NEW k \in Keys, NEW m \in Members,
         decide[k][m] = "idle", decide'[k][m] # "idle"
  PROVE  \E n \in Approvers : DecideRead(k, n)
<1>1. ASSUME NEW q \in Keys, NEW n \in Approvers, DecideRead(q, n)
      PROVE  q = k
  BY <1>1 DEF DecideRead, TypeOK
<1>2. ASSUME NEW q \in Keys, NEW n \in Approvers,
             NEW o \in {"APPROVE", "REJECT"}, DecideRecord(q, n, o)
      PROVE  FALSE
  BY <1>2, ApproverAssumption DEF DecideRecord, TypeOK
<1>3. ASSUME NEW q \in Keys, NEW n \in Approvers,
             decide' = [decide EXCEPT ![q][n] = "idle"]
      PROVE  FALSE
  BY <1>3, DecisionEnds, ApproverAssumption
<1>4. CASE Submitting
  BY <1>4 DEF Submitting, SubmitRead, SubmitCommit, SubmitStale, SubmitTimeout
<1>5. CASE Deciding
  BY <1>1, <1>2, <1>3, <1>5
     DEF Deciding, DecideStale, DecidePartial, DecideApprove, DecideReject,
         DecideRefused, DecideTimeout
<1>6. CASE Editing
  BY <1>6 DEF Editing, EditRead, EditCommit, EditStale, EditTimeout
<1>7. CASE Banking
  BY <1>7, SweepsOnly DEF Banking, BankSweeps, BankCommit
<1>8. QED
  BY <1>4, <1>5, <1>6, <1>7 DEF Next

(* What a step may do to the approvals of a request that stays PENDING.    *)
LEMMA CountsMove ==
  ASSUME TypeOK, Inductive, Next, NEW k \in Keys, Exists(k), request'[k] = request[k],
         Pending(k)
  PROVE  \/ approvals'[k] = approvals[k] /\ Partials(k)' \subseteq Partials(k)
         \/ \E m \in Approvers, o \in {"APPROVE", "REJECT"} : DecideRecord(k, m, o)
         \/ \E m \in Approvers : DecidePartial(k, m)
<1> USE DEF Inductive
<1> DEFINE Same == approvals'[k] = approvals[k] /\ Partials(k)' \subseteq Partials(k)
<1>1. ASSUME UNCHANGED <<approvals, decide>> PROVE Same
  BY <1>1 DEF Partials
<1>2. ASSUME NEW q \in Keys, NEW n \in Approvers, DecideRead(q, n) PROVE Same
  <2>1. \A m \in Members : decide'[k][m] \in {decide[k][m], "checked"}
    BY <1>2 DEF DecideRead, TypeOK
  <2>2. QED
    BY <1>2, <2>1 DEF Partials, DecideRead, tables
<1>3. ASSUME NEW q \in Keys \ {k}, NEW n \in Approvers,
             NEW o \in {"APPROVE", "REJECT"}, DecideRecord(q, n, o)
      PROVE  Same
  BY <1>3 DEF DecideRecord, tables, TypeOK, Partials
<1>4. ASSUME NEW q \in Keys, NEW n \in Approvers,
             decide' = [decide EXCEPT ![q][n] = "idle"], approvals'[k] = approvals[k]
      PROVE  Same
  <2>1. \A m \in Members : decide'[k][m] \in {decide[k][m], "idle"}
    BY <1>4, DecisionEnds, ApproverAssumption
  <2>2. QED
    BY <1>4, <2>1 DEF Partials
<1>5. ASSUME NEW q \in Keys, NEW n \in Approvers, DecideApprove(q, n) PROVE q # k
  <2>1. SUFFICES ASSUME q = k PROVE FALSE
    OBVIOUS
  <2>2. Verdict(k, "APPROVED")
    BY <1>5, <2>1 DEF DecideApprove, Verdict
  <2>3. Becomes(k, "APPROVED")
    BY <2>2, VerdictRows
  <2>4. QED
    BY <2>3 DEF Becomes, Pending
<1>6. CASE Submitting
  BY <1>1, <1>6 DEF Submitting, SubmitRead, SubmitCommit, SubmitStale, SubmitTimeout, tables
<1>7. CASE Deciding
  <2>1. ASSUME NEW q \in Keys, DecideStale(q) PROVE Same
    BY <1>1, <2>1 DEF DecideStale
  <2>2. ASSUME NEW q \in Keys \ {k}, NEW n \in Approvers,
               DecidePartial(q, n) \/ DecideApprove(q, n)
        PROVE  Same
    BY <1>4, <2>2 DEF DecidePartial, DecideApprove, TypeOK
  <2>3. ASSUME NEW q \in Keys, NEW n \in Approvers,
               DecideReject(q, n) \/ DecideRefused(q, n) \/ DecideTimeout(q, n)
        PROVE  Same
    BY <1>4, <2>3 DEF DecideReject, DecideRefused, DecideTimeout, tables
  <2>4. QED
    BY <1>2, <1>3, <1>5, <1>7, <2>1, <2>2, <2>3 DEF Deciding
<1>8. CASE Editing
  BY <1>1, <1>8 DEF Editing, EditRead, EditCommit, EditStale, EditTimeout, tables
<1>9. CASE Banking
  BY <1>1, <1>9, SweepsOnly DEF Banking, BankSweeps, BankCommit, tables
<1>10. QED
  BY <1>6, <1>7, <1>8, <1>9 DEF Next

(* A decision that no new account overtook is on a request that fits.      *)
LEMMA NextOvertaken ==
  ASSUME TypeOK, Inductive, KeysInOrder', AccountsInOrder, HNext,
         NEW k \in Keys, NEW m \in Members,
         Pending(k)', decide'[k][m] # "idle", <<k, m>> \notin overtaken'
  PROVE  Fits(k)'
<1>1. Next /\ [Next]_vars /\ NoteOvertaking
  BY DEF HNext
<1>2. Exists(k)
  <2>1. SUFFICES ASSUME ~Exists(k) PROVE FALSE
    OBVIOUS
  <2>2. SubmitCommit(k)
    BY <1>1, <2>1, NewRequest DEF Pending
  <2>3. QED
    BY <2>1, <2>2 DEF SubmitCommit, Inductive, KeysInOrder
<1>3. /\ Pending(k) /\ Target(k) \in Invoices
      /\ request'[k] = request[k] /\ Target(k)' = Target(k)
  BY <1>1, <1>2, PendingUnchanged, ExistingRequest DEF Target, Pending
<1>4. /\ <<k, m>> \notin overtaken
      /\ bank'[VendorOf(Target(k))] = bank[VendorOf(Target(k))]
  BY <1>1 DEF NoteOvertaking
<1>5. Fits(k)
  <2>1. CASE decide[k][m] = "idle"
    <3>1. \E n \in Approvers : DecideRead(k, n)
      BY <1>1, <2>1, DecisionBegins
    <3>2. QED
      BY <3>1 DEF DecideRead, Current, Fits, VendorOf
  <2>2. CASE decide[k][m] # "idle"
    BY <1>3, <1>4, <2>2 DEF AccountsInOrder
  <2>3. QED
    BY <2>1, <2>2
<1>6. QED
  BY <1>1, <1>2, <1>4, <1>5, FitsKept

(* A count that did not complete the request leaves it short of approvals, *)
(* unless another was under way.                                           *)
LEMMA NextCounts ==
  ASSUME TypeOK, TypeOK', Inductive, CountsInOrder, HNext, NEW k \in Keys,
         Pending(k)', k \notin overlapped'
  PROVE  /\ Cardinality(approvals'[k]) < request'[k].required
         /\ \A m \in Partials(k)' :
              /\ Partials(k)' = {m}
              /\ Cardinality(approvals'[k] \cup {m}) < request'[k].required
<1> USE DEF Inductive
<1>1. Next /\ [Next]_vars /\ NoteOverlap
  BY DEF HNext
<1>2. \A m, n \in Partials(k)' : m = n
  BY <1>1 DEF NoteOverlap
<1>3. CASE ~Exists(k)
  <2>1. SubmitCommit(k)
    BY <1>1, <1>3, NewRequest DEF Pending
  <2>2. /\ approvals'[k] = {}
        /\ \A m \in Members : decide'[k][m] = "idle"
    BY <1>3, <2>1 DEF SubmitCommit, KeysInOrder, Decided
  <2>3. request'[k].required \in 1..2
    BY <2>1, SubmitCommitRows
  <2>4. QED
    BY <2>2, <2>3, FS_EmptySet DEF Partials
<1>4. CASE Exists(k)
  <2>1. /\ Pending(k) /\ request'[k] = request[k] /\ k \notin overlapped
        /\ request[k].required \in 1..2
    BY <1>1, <1>4, PendingUnchanged, ExistingRequest DEF Pending, NoteOverlap
  <2>2. /\ Cardinality(approvals[k]) < request[k].required
        /\ \A m \in Partials(k) :
             /\ Partials(k) = {m}
             /\ Cardinality(approvals[k] \cup {m}) < request[k].required
    BY <2>1 DEF CountsInOrder
  <2>3. CASE approvals'[k] = approvals[k] /\ Partials(k)' \subseteq Partials(k)
    BY <1>2, <2>1, <2>2, <2>3
  <2>4. ASSUME NEW m \in Approvers, NEW o \in {"APPROVE", "REJECT"}, DecideRecord(k, m, o)
        PROVE  Cardinality(approvals'[k]) < request'[k].required
               /\ \A n \in Partials(k)' :
                    Cardinality(approvals'[k] \cup {n}) < request'[k].required
    <3>1. approvals' = approvals /\ m \in Members
      BY <2>4, ApproverAssumption DEF DecideRecord, tables
    <3>2. \A n \in Members : n # m => decide'[k][n] = decide[k][n]
      BY <2>4, <3>1 DEF DecideRecord, TypeOK
    <3>3. decide'[k][m] = "partial" => ~(Cardinality(approvals[k] \cup {m}) >= request[k].required)
      BY <2>4, <3>1 DEF DecideRecord, TypeOK, Counted
    <3>4. Cardinality(approvals[k] \cup {m}) \in Nat
      BY FiniteApprovals, MoreApprovals
    <3>5. QED
      BY <2>1, <2>2, <3>1, <3>2, <3>3, <3>4 DEF Partials
  <2>5. ASSUME NEW m \in Approvers, DecidePartial(k, m)
        PROVE  Cardinality(approvals'[k]) < request'[k].required /\ Partials(k)' = {}
    <3>1. /\ m \in Partials(k)
          /\ approvals'[k] = approvals[k] \cup {m}
          /\ decide' = [decide EXCEPT ![k][m] = "idle"]
      BY <2>5, ApproverAssumption DEF DecidePartial, Partials, TypeOK
    <3>2. \A n \in Members : decide'[k][n] = decide[k][n] \/ n = m
      BY <3>1, DecisionEnds DEF Partials
    <3>3. decide'[k][m] = "idle"
      BY <3>1, DecisionEnds DEF Partials
    <3>4. QED
      BY <2>1, <2>2, <3>1, <3>2, <3>3 DEF Partials
  <2>6. \/ approvals'[k] = approvals[k] /\ Partials(k)' \subseteq Partials(k)
        \/ \E m \in Approvers, o \in {"APPROVE", "REJECT"} : DecideRecord(k, m, o)
        \/ \E m \in Approvers : DecidePartial(k, m)
    BY <1>1, <1>4, <2>1, CountsMove
  <2>7. QED
    BY <1>2, <2>3, <2>4, <2>5, <2>6
<1>5. QED
  BY <1>3, <1>4

(* A PENDING request is approved by the commit of a decision alone.        *)
LEMMA OnlyApproves ==
  ASSUME TypeOK, Inductive, Next, NEW k \in Keys, Pending(k),
         request'[k].status = "APPROVED"
  PROVE  \E m \in Approvers : DecideApprove(k, m)
<1> USE DEF Inductive
<1>1. Exists(k) /\ request'[k] # request[k]
  BY DEF Pending
<1>2. ASSUME NEW q \in Keys, SubmitCommit(q) PROVE FALSE
  BY <1>1, <1>2, SubmitCommitRows
<1>3. ASSUME NEW q \in Keys, DecideStale(q) PROVE FALSE
  BY <1>1, <1>3, DecideStaleRows DEF Becomes
<1>4. ASSUME NEW q \in Keys, NEW m \in Approvers, DecideApprove(q, m) PROVE q = k
  <2>1. Exists(q) /\ Verdict(q, "APPROVED")
    BY <1>4, DeciderHasRequest DEF DecideApprove, Verdict
  <2>2. QED
    BY <1>1, <2>1, VerdictRows
<1>5. ASSUME NEW q \in Keys, NEW m \in Approvers, DecideReject(q, m) PROVE FALSE
  <2>1. Exists(q) /\ Verdict(q, "REJECTED")
    BY <1>5, DeciderHasRequest DEF DecideReject, Verdict
  <2>2. QED
    BY <1>1, <2>1, VerdictRows DEF Becomes
<1>6. ASSUME NEW j \in Invoices, NEW v \in Vendors, EditCommit(j, v) PROVE FALSE
  BY <1>1, <1>6, EditCommitRows DEF Becomes
<1>7. ASSUME NEW v \in Vendors, BankCommit(v) PROVE FALSE
  BY <1>1, <1>7, BankCommitRows DEF Becomes
<1>8. ASSUME request' = request PROVE FALSE
  BY <1>1, <1>8
<1>9. QED
  BY <1>2, <1>3, <1>4, <1>5, <1>6, <1>7, <1>8, SweepsOnly
     DEF Next, tables, Submitting, Deciding, Editing, Banking, BankSweeps,
         SubmitRead, SubmitStale, SubmitTimeout, DecideRead, DecideRecord,
         DecidePartial, DecideRefused, DecideTimeout, EditRead, EditStale, EditTimeout

(* The history records, and restricts nothing.                             *)
LEMMA HistoryRecords == HSpec => Spec
<1>1. HInit => Init
  BY DEF HInit
<1>2. [HNext]_hvars => [Next]_vars
  BY DEF HNext, hvars
<1>3. QED
  BY <1>1, <1>2, PTL DEF HSpec, Spec

LEMMA InitHistory == HInit => HInductive
BY DEF HInit, Init, HInductive, HTypeOK, AccountsInOrder, CountsInOrder, Pending, Exists

(* The accounts that open submissions and requests name are real.          *)
LEMMA NextAccounts ==
  ASSUME TypeOK, Inductive, AccountsInOrder, Next
  PROVE  /\ \A k \in Keys : submit'[k] # None => submit'[k].bank > 0
         /\ \A k \in Keys : Exists(k)' => request'[k].bank > 0
<1> USE DEF Inductive
<1>1. ASSUME NEW k \in Keys, submit'[k] # None PROVE submit'[k].bank > 0
  <2>1. CASE submit'[k] = submit[k]
    BY <1>1, <2>1 DEF AccountsInOrder
  <2>2. ASSUME NEW q \in Keys, NEW i \in Invoices, NEW m \in Members,
               NEW l \in RiskLevel, SubmitRead(q, i, m, l)
        PROVE  submit'[k].bank > 0
    <3>1. CASE q = k
      BY <2>2, <3>1 DEF SubmitRead, TypeOK
    <3>2. CASE q # k
      <4>1. submit'[k] = submit[k]
        BY <2>2, <3>2 DEF SubmitRead, TypeOK
      <4>2. QED
        BY <2>1, <4>1
    <3>3. QED
      BY <3>1, <3>2
  <2>3. ASSUME NEW q \in Keys, submit' = [submit EXCEPT ![q] = None]
        PROVE  submit'[k] = submit[k]
    BY <1>1, <2>3 DEF TypeOK
  <2>4. CASE Submitting
    BY <2>1, <2>2, <2>3, <2>4 DEF Submitting, SubmitCommit, SubmitStale, SubmitTimeout
  <2>5. CASE Deciding
    BY <2>1, <2>5 DEF Deciding, DecideRead, DecideStale, DecideRecord, DecidePartial,
                      DecideApprove, DecideReject, DecideRefused, DecideTimeout
  <2>6. CASE Editing
    BY <2>1, <2>6 DEF Editing, EditRead, EditCommit, EditStale, EditTimeout
  <2>7. CASE Banking
    BY <2>1, <2>7, SweepsOnly DEF Banking, BankSweeps, BankCommit
  <2>8. QED
    BY <2>4, <2>5, <2>6, <2>7 DEF Next
<1>2. ASSUME NEW k \in Keys, Exists(k)' PROVE request'[k].bank > 0
  <2>1. CASE Exists(k)
    BY <2>1, EveryRowSteps DEF RequestSteps, Becomes, AccountsInOrder
  <2>2. CASE ~Exists(k)
    <3>1. SubmitCommit(k)
      BY <1>2, <2>2, NewRequest
    <3>2. QED
      BY <3>1, SubmitCommitRows DEF SubmitCommit, AccountsInOrder
  <2>3. QED
    BY <2>1, <2>2
<1>3. QED
  BY <1>1, <1>2

(* The invariant of the workflow together with its history.                *)
LEMMA HistoryInvariance == HSpec => []HInductive
<1>1. TypeOK /\ TypeOK' /\ Inductive /\ Inductive' /\ HInductive /\ [HNext]_hvars
        => HInductive'
  <2> SUFFICES ASSUME TypeOK, TypeOK', Inductive, Inductive', HInductive, [HNext]_hvars
               PROVE  HInductive'
    OBVIOUS
  <2>1. CASE HNext
    <3>1. HTypeOK'
      BY <2>1 DEF HNext, NoteEscape, NoteOvertaking, NoteOverlap, HTypeOK
    <3>2. AccountsInOrder'
      BY <2>1, NextAccounts, NextUnescaped, NextOvertaken
         DEF HInductive, AccountsInOrder, HNext, Inductive
    <3>3. CountsInOrder'
      BY <2>1, NextCounts DEF HInductive, CountsInOrder
    <3>4. QED
      BY <3>1, <3>2, <3>3 DEF HInductive
  <2>2. CASE UNCHANGED hvars
    BY <2>2
       DEF hvars, vars, history, HInductive, HTypeOK, AccountsInOrder, CountsInOrder,
           Fits, Swept, Sweeping, VendorOf, Target, Pending, Exists, Partials
  <2>3. QED
    BY <2>1, <2>2
<1>2. QED
  BY <1>1, InitHistory, HistoryRecords, TypeCorrect, InductiveHolds, PTL DEF HSpec

(* A request is approved for its vendor's latest account, unless both its  *)
(* submission and its deciding approval overlapped with a new one (submit, *)
(* decide, addBankVersion).                                                *)
THEOREM LatestAccountApproved == HSpec => ApprovedForLatestAccount
<1>1. ASSUME TypeOK, Inductive, HInductive, [HNext]_hvars, NEW k \in Keys,
             Pending(k), request'[k].status = "APPROVED"
      PROVE  \/ request[k].bank = bank[VendorOf(Target(k))]
             \/ /\ k \in escaped
                /\ \E m \in Members : /\ <<k, m>> \in overtaken
                                      /\ decide[k][m] = "approving"
                                      /\ decide'[k][m] = "idle"
  <2>1. Next /\ Exists(k) /\ request'[k] # request[k]
    BY <1>1 DEF HNext, hvars, vars, Pending
  <2>2. PICK m \in Approvers : DecideApprove(k, m)
    BY <1>1, <2>1, OnlyApproves
  <2>3. /\ m \in Members /\ decide[k][m] = "approving" /\ decide'[k][m] = "idle"
    BY <1>1, <2>2, ApproverAssumption, DecisionEnds DEF DecideApprove
  <2>4. CASE Fits(k)
    BY <2>4 DEF Fits
  <2>5. CASE ~Fits(k)
    BY <1>1, <2>3, <2>5 DEF HInductive, AccountsInOrder
  <2>6. QED
    BY <2>4, <2>5
<1>2. TypeOK /\ Inductive /\ HInductive /\ [HNext]_hvars =>
        [\A k \in Keys :
           Pending(k) /\ request'[k].status = "APPROVED" =>
             \/ request[k].bank = bank[VendorOf(Target(k))]
             \/ /\ k \in escaped
                /\ \E m \in Members : /\ <<k, m>> \in overtaken
                                      /\ decide[k][m] = "approving"
                                      /\ decide'[k][m] = "idle"]_hvars
  BY <1>1
<1>3. QED
  BY <1>2, HistoryRecords, HistoryInvariance, TypeCorrect, InductiveHolds, PTL
     DEF HSpec, ApprovedForLatestAccount

(* An invoice that awaits approval has a request that decisions can still  *)
(* complete, unless two of its approvals did not see each other.           *)
THEOREM AwaitingServed == HSpec => []AwaitingInvoiceIsServed
<1>1. Inductive /\ HInductive /\ AwaitingInvoiceHasRequest => AwaitingInvoiceIsServed
  <2>1. ASSUME Inductive, HInductive, AwaitingInvoiceHasRequest,
               NEW i \in Invoices, invoice[i].status = "AWAITING_APPROVAL"
        PROVE  \E k \in Keys : /\ Pending(k)
                               /\ Target(k) = i
                               /\ request[k].invoiceVersion = invoice[i].version
                               /\ request[k].bank = invoice[i].bank
                               /\ rejections[k] = {}
                               /\ \/ Cardinality(approvals[k]) < request[k].required
                                  \/ k \in overlapped
    <3>1. PICK k \in Keys : /\ Pending(k)
                            /\ Target(k) = i
                            /\ request[k].invoiceVersion = invoice[i].version
                            /\ request[k].bank = invoice[i].bank
      BY <2>1 DEF AwaitingInvoiceHasRequest
    <3>2. rejections[k] = {}
      BY <2>1, <3>1 DEF Inductive, DecisionsInOrder, DecisionsOf, Pending
    <3>3. Cardinality(approvals[k]) < request[k].required \/ k \in overlapped
      BY <2>1, <3>1 DEF HInductive, CountsInOrder
    <3>4. QED
      BY <3>1, <3>2, <3>3
  <2>2. QED
    BY <2>1 DEF AwaitingInvoiceIsServed
<1>2. QED
  BY <1>1, HistoryRecords, HistoryInvariance, InductiveHolds, AwaitingHasRequest, PTL

=============================================================================
