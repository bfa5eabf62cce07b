--------------------------- MODULE InvoiceApproval ---------------------------
(***************************************************************************)
(* The approval workflow of apps/api: submission of a reviewed invoice,    *)
(* the approvers' decisions, edits of the invoice while it waits, and new  *)
(* bank-account versions of its vendor.                                    *)
(*                                                                         *)
(* Each of the four is one interactive PostgreSQL transaction at the       *)
(* default isolation level, READ COMMITTED: every statement sees what is   *)
(* committed when it runs, an UPDATE waits for the row's lock and then     *)
(* evaluates its WHERE again.  A transaction is therefore several steps:   *)
(* the statements whose order against other transactions matters are       *)
(* actions of their own, and what it has read stays in its local state     *)
(* (submit, decide, edit, bankTx).  The shared tables change only in the   *)
(* step that commits, with the row locks held from an earlier UPDATE       *)
(* modelled for the one transaction that updates many rows, one row after  *)
(* the other (bankTx).  RowLocks has the locks of the four together.       *)
(*                                                                         *)
(* Abstractions.  A request is identified by its idempotency key, which    *)
(* the database keeps unique: a call that repeats a stored key is answered *)
(* from the stored row and changes nothing.  Approvers are the memberships *)
(* that pass the role and step-up checks; a call they refuse is the same   *)
(* as a timeout.  A bank account version is its number.  Callers send a    *)
(* version of the row they have been shown, so an outdated one ends in the *)
(* Stale actions and a current one is the version the transaction reads.   *)
(* The unique index of RiskAssessment on (invoice, version) is left out:   *)
(* OneRequestPerVersion shows that no commit ever meets it.                *)
(***************************************************************************)
EXTENDS Naturals, FiniteSets

CONSTANTS Invoices,          \* the invoices that have left the ingest pipeline
          Vendors,           \* the vendors they may name
          Members,           \* memberships of the organization
          Approvers,         \* those in APPROVER_ROLES with a verified session
          Keys,              \* idempotency keys, the identities of requests
          None,              \* no row, no transaction
          MaxBank,           \* bound: bank-account versions of a vendor
          MaxEditVersion,    \* bound: the highest version an edit starts from
          MaxDeciding        \* bound: decide transactions open at once

ASSUME ApproverAssumption == Approvers \subseteq Members /\ IsFiniteSet(Approvers)

InvoiceStatus == {"NEEDS_REVIEW", "AWAITING_APPROVAL", "APPROVED", "REJECTED"}
RequestStatus == {"PENDING", "APPROVED", "REJECTED", "INVALIDATED"}
RiskLevel     == {"LOW", "MEDIUM", "HIGH"}

(* Variant, for the runs' mutants: no decision for a low risk.             *)
RequiredByTier(level) == CASE level = "HIGH" -> 2 [] level = "MEDIUM" -> 1 [] OTHER -> 0

Required(level) == IF level = "HIGH" THEN 2 ELSE 1

Invoice == [status: InvoiceStatus, version: Nat, vendor: Vendors, bank: Nat]

Request == [invoice: Invoices, invoiceVersion: Nat, bank: Nat,
            required: 1..2, initiator: Members, status: RequestStatus]

(* What an open transaction remembers between its statements.              *)
SubmitTx == [invoice: Invoices, version: Nat, bank: Nat,
             required: 1..2, initiator: Members]
DecidePhase == {"idle", "checked", "partial", "approving", "rejecting"}
EditTx == [version: Nat, invalidates: BOOLEAN]
BankTx == [phase: {"inserted", "requests", "invoices"},
           foundRequests: SUBSET Keys, requests: SUBSET Keys,
           foundInvoices: SUBSET Invoices, invoices: SUBSET Invoices]

ASSUME NoneAssumption == None \notin Request \cup SubmitTx \cup EditTx \cup BankTx

VARIABLES invoice,      \* the Invoice table
          request,      \* the ApprovalRequest table, by idempotency key
          approvals,    \* ApprovalDecision rows with outcome APPROVE, by request
          rejections,   \* ApprovalDecision rows with outcome REJECT, by request
          bank,         \* the latest committed bank version of each vendor, 0 = none
          submit,       \* the open submit transaction of each key
          decide,       \* the open decide transaction of each request and member
          edit,         \* the open update transaction of each invoice
          bankTx        \* the open addBankVersion transaction of each vendor

tables == <<invoice, request, approvals, rejections, bank>>
vars == <<invoice, request, approvals, rejections, bank,
          submit, decide, edit, bankTx>>

Exists(k)     == request[k] # None
Pending(k)    == Exists(k) /\ request[k].status = "PENDING"
Target(k)     == request[k].invoice
Decided(k)    == approvals[k] \cup rejections[k]

(* Rows updated by an addBankVersion transaction that has not ended: an    *)
(* UPDATE of one of them by another transaction waits.                     *)
LockedRequests == UNION {bankTx[v].requests : v \in {w \in Vendors : bankTx[w] # None}}
LockedInvoices == UNION {bankTx[v].invoices : v \in {w \in Vendors : bankTx[w] # None}}

Init ==
  /\ invoice \in [Invoices -> [status: {"NEEDS_REVIEW"}, version: {1},
                               vendor: Vendors, bank: {0}]]
  /\ request = [k \in Keys |-> None]
  /\ approvals = [k \in Keys |-> {}]
  /\ rejections = [k \in Keys |-> {}]
  /\ bank = [v \in Vendors |-> 0]
  /\ submit = [k \in Keys |-> None]
  /\ decide = [k \in Keys |-> [m \in Members |-> "idle"]]
  /\ edit = [i \in Invoices |-> None]
  /\ bankTx = [v \in Vendors |-> None]

-----------------------------------------------------------------------------
(* submit                                                                  *)

(* The reads: no row has this key, the invoice is ready, its vendor has a  *)
(* bank account, and the risk engine rates it.                             *)
SubmitRead(k, i, m, level) ==
  LET v == invoice[i].vendor IN
  /\ submit[k] = None
  /\ ~Exists(k)
  /\ invoice[i].status = "NEEDS_REVIEW"
  /\ bank[v] > 0
  /\ submit' = [submit EXCEPT ![k] =
                  [invoice |-> i, version |-> invoice[i].version,
                   bank |-> bank[v], initiator |-> m,
                   required |-> Required(level)]]
  /\ UNCHANGED <<tables, decide, edit, bankTx>>

(* Variant: the version left out of the WHERE.                             *)
StillInReview(tx) == invoice[tx.invoice].status = "NEEDS_REVIEW"

(* The WHERE of the invoice's updateMany.                                  *)
StillReady(tx) ==
  /\ invoice[tx.invoice].version = tx.version
  /\ invoice[tx.invoice].status = "NEEDS_REVIEW"

(* The writes: the request, bound to the version the invoice gets now.     *)
SubmitCommit(k) ==
  LET tx == submit[k] IN
  /\ tx # None
  /\ tx.invoice \notin LockedInvoices
  /\ StillReady(tx)
  /\ request' = [request EXCEPT ![k] =
                   [invoice |-> tx.invoice, invoiceVersion |-> tx.version + 1,
                    bank |-> tx.bank, required |-> tx.required,
                    initiator |-> tx.initiator, status |-> "PENDING"]]
  /\ invoice' = [invoice EXCEPT ![tx.invoice] =
                   [status |-> "AWAITING_APPROVAL", version |-> @.version + 1,
                    vendor |-> @.vendor, bank |-> tx.bank]]
  /\ submit' = [submit EXCEPT ![k] = None]
  /\ UNCHANGED <<approvals, rejections, bank, decide, edit, bankTx>>

(* No row matched: STALE_INVOICE_VERSION, everything is rolled back.       *)
SubmitStale(k) ==
  /\ submit[k] # None
  /\ submit[k].invoice \notin LockedInvoices
  /\ ~StillReady(submit[k])
  /\ submit' = [submit EXCEPT ![k] = None]
  /\ UNCHANGED <<tables, decide, edit, bankTx>>

-----------------------------------------------------------------------------
(* decide                                                                  *)

(* Variant: the vendor's latest bank account not compared.                 *)
SameInvoice(k) ==
  LET i == Target(k) IN
  /\ invoice[i].version = request[k].invoiceVersion
  /\ invoice[i].status = "AWAITING_APPROVAL"

(* The request still speaks of the invoice as it is, and of the vendor's   *)
(* latest bank account.                                                    *)
Current(k) ==
  LET i == Target(k) IN
  /\ invoice[i].version = request[k].invoiceVersion
  /\ invoice[i].status = "AWAITING_APPROVAL"
  /\ request[k].bank = bank[invoice[i].vendor]

OpenDecisions == {km \in Keys \X Members : decide[km[1]][km[2]] # "idle"}

(* Variant: separation of duties not enforced.                             *)
NotYetDecided(k, m) == m \notin Decided(k)

(* Separation of duties, and the unique index that will let the member's   *)
(* one decision in: no other transaction can change either.                *)
MayDecide(k, m) == m # request[k].initiator /\ m \notin Decided(k)

DecideRead(k, m) ==
  /\ Cardinality(OpenDecisions) < MaxDeciding
  /\ decide[k][m] = "idle"
  /\ Pending(k)
  /\ Current(k)
  /\ MayDecide(k, m)
  /\ decide' = [decide EXCEPT ![k][m] = "checked"]
  /\ UNCHANGED <<tables, submit, edit, bankTx>>

(* A decision on a request that is out of date invalidates it instead.     *)
DecideStale(k) ==
  LET i == Target(k) IN
  /\ Pending(k)
  /\ ~Current(k)
  /\ k \notin LockedRequests
  /\ i \notin LockedInvoices
  /\ request' = [request EXCEPT ![k].status = "INVALIDATED"]
  /\ invoice' = IF /\ invoice[i].version = request[k].invoiceVersion
                   /\ invoice[i].status = "AWAITING_APPROVAL"
                THEN [invoice EXCEPT ![i] =
                        [status |-> "NEEDS_REVIEW", version |-> @.version + 1,
                         vendor |-> @.vendor, bank |-> @.bank]]
                ELSE invoice
  /\ UNCHANGED <<approvals, rejections, bank, submit, decide, edit, bankTx>>

(* Variant: approvals of transactions still open are counted too.          *)
CountUncommitted(k, m) ==
  Cardinality(approvals[k] \cup {m} \cup
              {q \in Members : decide[k][q] \in {"partial", "approving"}})

(* Variant: counted before the transaction's own approval is inserted.     *)
CountedBefore(k, m) == Cardinality(approvals[k] \ {m})

(* The approvals a transaction counts: those committed, and its own.       *)
Counted(k, m) == Cardinality(approvals[k] \cup {m})

(* The decision is inserted, seen by no one else yet, and counted.         *)
DecideRecord(k, m, outcome) ==
  /\ decide[k][m] = "checked"
  /\ decide' = [decide EXCEPT ![k][m] =
                  IF outcome = "REJECT" THEN "rejecting"
                  ELSE IF Counted(k, m) >= request[k].required THEN "approving"
                  ELSE "partial"]
  /\ UNCHANGED <<tables, submit, edit, bankTx>>

(* An approval that does not complete the request commits.                 *)
DecidePartial(k, m) ==
  /\ decide[k][m] = "partial"
  /\ approvals' = [approvals EXCEPT ![k] = @ \cup {m}]
  /\ decide' = [decide EXCEPT ![k][m] = "idle"]
  /\ UNCHANGED <<invoice, request, rejections, bank, submit, edit, bankTx>>

(* Variant: the trigger on ApprovalRequest missing.                        *)
AlwaysMay(k, status) == Exists(k)

(* The trigger on ApprovalRequest: a status other than PENDING stays.      *)
MayBecome(k, status) == request[k].status \in {"PENDING", status}

(* Variant: the trigger on Invoice missing.                                *)
NoInvoiceGuard(k) == Exists(k)

(* The trigger on Invoice: an invoice enters APPROVED only under a request *)
(* approved for its present version; evaluated after request k is.         *)
InvoiceGuard(k) ==
  LET i == Target(k) IN
  \/ invoice[i].status = "APPROVED"
  \/ request[k].invoiceVersion = invoice[i].version
  \/ \E q \in Keys : /\ Exists(q)
                     /\ request[q].invoice = i
                     /\ request[q].invoiceVersion = invoice[i].version
                     /\ request[q].status = "APPROVED"

RowsFree(k) == k \notin LockedRequests /\ Target(k) \notin LockedInvoices

DecideApprove(k, m) ==
  /\ decide[k][m] = "approving"
  /\ RowsFree(k)
  /\ MayBecome(k, "APPROVED")
  /\ InvoiceGuard(k)
  /\ approvals' = [approvals EXCEPT ![k] = @ \cup {m}]
  /\ request' = [request EXCEPT ![k].status = "APPROVED"]
  /\ invoice' = [invoice EXCEPT ![Target(k)].status = "APPROVED"]
  /\ decide' = [decide EXCEPT ![k][m] = "idle"]
  /\ UNCHANGED <<rejections, bank, submit, edit, bankTx>>

DecideReject(k, m) ==
  /\ decide[k][m] = "rejecting"
  /\ RowsFree(k)
  /\ MayBecome(k, "REJECTED")
  /\ rejections' = [rejections EXCEPT ![k] = @ \cup {m}]
  /\ request' = [request EXCEPT ![k].status = "REJECTED"]
  /\ invoice' = [invoice EXCEPT ![Target(k)].status = "REJECTED"]
  /\ decide' = [decide EXCEPT ![k][m] = "idle"]
  /\ UNCHANGED <<approvals, bank, submit, edit, bankTx>>

(* A trigger raises: the decision is rolled back with the rest.            *)
DecideRefused(k, m) ==
  /\ \/ /\ decide[k][m] = "approving"
        /\ ~MayBecome(k, "APPROVED") \/ ~InvoiceGuard(k)
     \/ /\ decide[k][m] = "rejecting"
        /\ ~MayBecome(k, "REJECTED")
  /\ RowsFree(k)
  /\ decide' = [decide EXCEPT ![k][m] = "idle"]
  /\ UNCHANGED <<tables, submit, edit, bankTx>>

-----------------------------------------------------------------------------
(* update of an invoice (InvoicesService.update)                           *)

EditRead(i) ==
  /\ edit[i] = None
  /\ invoice[i].status \in {"NEEDS_REVIEW", "AWAITING_APPROVAL"}
  /\ invoice[i].version <= MaxEditVersion
  /\ edit' = [edit EXCEPT ![i] =
                [version |-> invoice[i].version,
                 invalidates |-> invoice[i].status = "AWAITING_APPROVAL"]]
  /\ UNCHANGED <<tables, submit, decide, bankTx>>

PendingOf(i) == {k \in Keys : Pending(k) /\ Target(k) = i}

(* The invoice row and, if the invoice was read as AWAITING_APPROVAL, its  *)
(* pending requests are free to be updated.                                *)
EditUnblocked(i) ==
  /\ i \notin LockedInvoices
  /\ edit[i].invalidates => PendingOf(i) \cap LockedRequests = {}

(* The WHERE of the invoice's updateMany names its version and no status.  *)
EditCommit(i, v) ==
  /\ edit[i] # None
  /\ EditUnblocked(i)
  /\ invoice[i].version = edit[i].version
  /\ invoice' = [invoice EXCEPT ![i] =
       [status |-> IF edit[i].invalidates THEN "NEEDS_REVIEW" ELSE @.status,
        version |-> @.version + 1,
        vendor |-> v,
        bank |-> IF edit[i].invalidates THEN 0 ELSE @.bank]]
  /\ request' = [k \in Keys |->
       IF edit[i].invalidates /\ k \in PendingOf(i)
       THEN [request[k] EXCEPT !.status = "INVALIDATED"] ELSE request[k]]
  /\ edit' = [edit EXCEPT ![i] = None]
  /\ UNCHANGED <<approvals, rejections, bank, submit, decide, bankTx>>

EditStale(i) ==
  /\ edit[i] # None
  /\ EditUnblocked(i)
  /\ invoice[i].version # edit[i].version
  /\ edit' = [edit EXCEPT ![i] = None]
  /\ UNCHANGED <<tables, submit, decide, bankTx>>

-----------------------------------------------------------------------------
(* addBankVersion                                                          *)

(* The insert of the next version; the unique index makes a second one     *)
(* wait for the first to end and then fail.                                *)
BankInsert(v) ==
  /\ bankTx[v] = None
  /\ bank[v] < MaxBank
  /\ bankTx' = [bankTx EXCEPT ![v] =
                  [phase |-> "inserted", foundRequests |-> {}, requests |-> {},
                   foundInvoices |-> {}, invoices |-> {}]]
  /\ UNCHANGED <<tables, submit, decide, edit>>

(* The first version freezes nothing; a later one freezes what is pending, *)
(* first the requests, then the invoices.  Each of the two UPDATEs finds   *)
(* its rows in one snapshot, and locks them one by one.                    *)
BankFindRequests(v) ==
  /\ bankTx[v] # None
  /\ bankTx[v].phase = "inserted"
  /\ bank[v] > 0
  /\ bankTx' = [bankTx EXCEPT ![v] =
       [@ EXCEPT !.phase = "requests", !.foundRequests =
                   {k \in Keys : Pending(k) /\ invoice[Target(k)].vendor = v}]]
  /\ UNCHANGED <<tables, submit, decide, edit>>

(* A row is locked once no other transaction has it, and passed over if    *)
(* the request is not PENDING any more; its invoice's vendor is not looked *)
(* at again.                                                               *)
BankTakeRequest(v, k) ==
  LET tx == bankTx[v] IN
  /\ tx # None
  /\ tx.phase = "requests"
  /\ k \in tx.foundRequests
  /\ k \notin LockedRequests
  /\ bankTx' = [bankTx EXCEPT ![v] =
       [tx EXCEPT !.foundRequests = tx.foundRequests \ {k},
                  !.requests = tx.requests \cup {q \in {k} : Pending(q)}]]
  /\ UNCHANGED <<tables, submit, decide, edit>>

(* Variant: the vendor left out of the WHERE.                              *)
AwaitingInvoices(v) == {i \in Invoices : invoice[i].status = "AWAITING_APPROVAL"}

AwaitingOf(v) == {i \in Invoices : /\ invoice[i].vendor = v
                                   /\ invoice[i].status = "AWAITING_APPROVAL"}

BankFindInvoices(v) ==
  /\ bankTx[v] # None
  /\ bankTx[v].phase = "requests"
  /\ bankTx[v].foundRequests = {}
  /\ bankTx' = [bankTx EXCEPT ![v] =
       [@ EXCEPT !.phase = "invoices", !.foundInvoices = AwaitingOf(v)]]
  /\ UNCHANGED <<tables, submit, decide, edit>>

BankTakeInvoice(v, i) ==
  LET tx == bankTx[v] IN
  /\ tx # None
  /\ tx.phase = "invoices"
  /\ i \in tx.foundInvoices
  /\ i \notin LockedInvoices
  /\ bankTx' = [bankTx EXCEPT ![v] =
       [tx EXCEPT !.foundInvoices = tx.foundInvoices \ {i},
                  !.invoices = tx.invoices \cup ({i} \cap AwaitingOf(v))]]
  /\ UNCHANGED <<tables, submit, decide, edit>>

BankReady(v) == \/ bankTx[v].phase = "invoices" /\ bankTx[v].foundInvoices = {}
                \/ bankTx[v].phase = "inserted" /\ bank[v] = 0

BankCommit(v) ==
  LET tx == bankTx[v] IN
  /\ tx # None
  /\ BankReady(v)
  /\ bank' = [bank EXCEPT ![v] = @ + 1]
  /\ request' = [k \in Keys |->
       IF k \in tx.requests
       THEN [request[k] EXCEPT !.status = "INVALIDATED"] ELSE request[k]]
  /\ invoice' = [i \in Invoices |->
       IF i \in tx.invoices
       THEN [status |-> "NEEDS_REVIEW", version |-> invoice[i].version + 1,
             vendor |-> invoice[i].vendor, bank |-> 0]
       ELSE invoice[i]]
  /\ bankTx' = [bankTx EXCEPT ![v] = None]
  /\ UNCHANGED <<approvals, rejections, submit, decide, edit>>

-----------------------------------------------------------------------------
(* An open transaction can be lost at any point: the API process dies, the *)
(* transaction times out, a check refuses the caller.  Nothing it wrote    *)
(* remains.                                                                *)
SubmitTimeout(k) ==
  /\ submit[k] # None
  /\ submit' = [submit EXCEPT ![k] = None]
  /\ UNCHANGED <<tables, decide, edit, bankTx>>

DecideTimeout(k, m) ==
  /\ decide[k][m] # "idle"
  /\ decide' = [decide EXCEPT ![k][m] = "idle"]
  /\ UNCHANGED <<tables, submit, edit, bankTx>>

EditTimeout(i) ==
  /\ edit[i] # None
  /\ edit' = [edit EXCEPT ![i] = None]
  /\ UNCHANGED <<tables, submit, decide, bankTx>>

BankTimeout(v) ==
  /\ bankTx[v] # None
  /\ bankTx' = [bankTx EXCEPT ![v] = None]
  /\ UNCHANGED <<tables, submit, decide, edit>>

Submitting == \E k \in Keys :
  \/ \E i \in Invoices, m \in Members, l \in RiskLevel : SubmitRead(k, i, m, l)
  \/ SubmitCommit(k)
  \/ SubmitStale(k)
  \/ SubmitTimeout(k)

Deciding == \E k \in Keys :
  \/ DecideStale(k)
  \/ \E m \in Approvers :
       \/ DecideRead(k, m)
       \/ \E outcome \in {"APPROVE", "REJECT"} : DecideRecord(k, m, outcome)
       \/ DecidePartial(k, m)
       \/ DecideApprove(k, m)
       \/ DecideReject(k, m)
       \/ DecideRefused(k, m)
       \/ DecideTimeout(k, m)

Editing == \E i \in Invoices :
  \/ EditRead(i)
  \/ \E v \in Vendors : EditCommit(i, v)
  \/ EditStale(i)
  \/ EditTimeout(i)

Banking == \E v \in Vendors :
  \/ BankInsert(v)
  \/ BankFindRequests(v)
  \/ \E k \in Keys : BankTakeRequest(v, k)
  \/ BankFindInvoices(v)
  \/ \E i \in Invoices : BankTakeInvoice(v, i)
  \/ BankCommit(v)
  \/ BankTimeout(v)

Next == Submitting \/ Deciding \/ Editing \/ Banking

Spec == Init /\ [][Next]_vars

-----------------------------------------------------------------------------
(* Properties                                                              *)

(* Every variable keeps its type.                                          *)
TypeOK ==
  /\ invoice \in [Invoices -> Invoice]
  /\ request \in [Keys -> Request \cup {None}]
  /\ approvals \in [Keys -> SUBSET Approvers]
  /\ rejections \in [Keys -> SUBSET Approvers]
  /\ bank \in [Vendors -> Nat]
  /\ submit \in [Keys -> SubmitTx \cup {None}]
  /\ decide \in [Keys -> [Members -> DecidePhase]]
  /\ edit \in [Invoices -> EditTx \cup {None}]
  /\ bankTx \in [Vendors -> BankTx \cup {None}]

(* A request is APPROVED only by as many distinct approvers as its risk    *)
(* level requires, none of them its initiator, and over no one's           *)
(* rejection, whichever decisions were open at the same time (decide).     *)
ApprovalHasQuorum ==
  \A k \in Keys : Exists(k) =>
    /\ request[k].status = "APPROVED" =>
         /\ Cardinality(approvals[k]) >= request[k].required
         /\ rejections[k] = {}
    /\ request[k].initiator \notin Decided(k)

(* An APPROVED invoice is at the version, and names the bank account, that *)
(* some APPROVED request was made for: no edit of the invoice slips        *)
(* between the evidence and the verdict (decide, the two triggers).  That  *)
(* the account is still the vendor's latest is another matter: see         *)
(* ApprovedForLatestAccount in ApprovalHistory.                            *)
ApprovedInvoiceIsBacked ==
  \A i \in Invoices : invoice[i].status = "APPROVED" =>
    \E k \in Keys : /\ Exists(k)
                    /\ Target(k) = i
                    /\ request[k].status = "APPROVED"
                    /\ request[k].invoiceVersion = invoice[i].version
                    /\ request[k].bank = invoice[i].bank

(* An invoice that awaits approval has a PENDING request for its present   *)
(* version and bank account (submit, update, addBankVersion, invalidate).  *)
(* Whether the request can still be completed is the question of           *)
(* AwaitingInvoiceIsServed in ApprovalHistory, which rests on this.        *)
AwaitingInvoiceHasRequest ==
  \A i \in Invoices : invoice[i].status = "AWAITING_APPROVAL" =>
    \E k \in Keys : /\ Pending(k)
                    /\ Target(k) = i
                    /\ request[k].invoiceVersion = invoice[i].version
                    /\ request[k].bank = invoice[i].bank

(* Concurrent submissions of one invoice never both succeed on the same    *)
(* version: at most one request speaks of it, and none of a version to     *)
(* come (the version in the WHERE of submit).                              *)
OneRequestPerVersion ==
  \A k \in Keys : Exists(k) =>
    /\ request[k].invoiceVersion <= invoice[Target(k)].version
    /\ \A q \in Keys \ {k} :
         Exists(q) /\ Target(q) = Target(k)
           => request[q].invoiceVersion # request[k].invoiceVersion

(* A request that has left PENDING keeps its status, and every request its *)
(* evidence, for ever, whatever transactions were still open on it.        *)
CompletedRequestIsFinal ==
  [][\A k \in Keys : Exists(k) =>
       /\ request'[k] # None
       /\ request'[k] = [request[k] EXCEPT !.status = request'[k].status]
       /\ ~Pending(k) => request'[k].status = request[k].status]_vars

(* Committing a bank-account version of one vendor disturbs the approvals  *)
(* of no other vendor, and leaves every verdict already given as it was.   *)
FreezeIsScoped ==
  [][\A v \in Vendors : bank'[v] # bank[v] =>
       \A i \in Invoices :
         invoice[i].vendor # v \/ invoice[i].status # "AWAITING_APPROVAL"
           => invoice'[i] = invoice[i]]_vars

(* The request table keeps the promise of DualControl at every step: a     *)
(* request's verdict is its status, its endorsers and objectors are the    *)
(* memberships whose decisions are committed (submit, decide, update,      *)
(* addBankVersion and invalidate together).                                *)
Abstract == INSTANCE DualControl WITH
  People <- Members,
  Requests <- Keys,
  Nobody <- None,
  verdict <- [k \in Keys |-> IF Exists(k) THEN request[k].status ELSE "NONE"],
  quorum <- [k \in Keys |-> IF Exists(k) THEN request[k].required ELSE 0],
  owner <- [k \in Keys |-> IF Exists(k) THEN request[k].initiator ELSE None],
  endorsers <- approvals,
  objectors <- rejections

KeepsDualControl == Abstract!Spec

-----------------------------------------------------------------------------
(* The inductive strengthening of the invariants above                     *)

(* A key has a request only after its submit transaction committed, and    *)
(* decisions only after that.                                              *)
KeysInOrder ==
  /\ \A k \in Keys : submit[k] # None => ~Exists(k)
  /\ \A k \in Keys : ~Exists(k) => /\ Decided(k) = {}
                                   /\ \A m \in Members : decide[k][m] = "idle"

(* A request for the present version of an invoice that awaits approval.   *)
Speaks(k) == /\ request[k].invoiceVersion = invoice[Target(k)].version
             /\ invoice[Target(k)].status = "AWAITING_APPROVAL"

(* The row locks of the open bank transactions: on requests that stay      *)
(* PENDING and invoices that stay AWAITING_APPROVAL while they are held,   *)
(* no row locked by two.  A request found by the first UPDATE speaks of an *)
(* invoice of the vendor as long as it is PENDING, and the second UPDATE   *)
(* finds the invoice of every request that was locked.                     *)
LocksOf(v) ==
  /\ \A k \in bankTx[v].requests :
       /\ Pending(k)
       /\ Speaks(k) => invoice[Target(k)].vendor = v
       /\ Speaks(k) /\ bankTx[v].phase = "invoices"
            => Target(k) \in bankTx[v].foundInvoices \cup bankTx[v].invoices
  /\ \A k \in bankTx[v].foundRequests :
       /\ Exists(k)
       /\ Pending(k) /\ Speaks(k) => invoice[Target(k)].vendor = v
  /\ \A i \in bankTx[v].invoices : /\ invoice[i].vendor = v
                                   /\ invoice[i].status = "AWAITING_APPROVAL"
  /\ bankTx[v].phase = "inserted" => bankTx[v].requests = {} /\ bankTx[v].invoices = {}
  /\ bankTx[v].phase # "requests" => bankTx[v].foundRequests = {}
  /\ \A w \in Vendors \ {v} : bankTx[w] # None =>
       bankTx[w].requests \cap bankTx[v].requests = {}

LocksHold == \A v \in Vendors : bankTx[v] # None => LocksOf(v)

(* Who has a decision open or committed, and what a count was good for.    *)
DecisionsOf(k) ==
  /\ \A m \in Members : decide[k][m] # "idle" =>
       m # request[k].initiator /\ m \notin Decided(k)
  /\ request[k].initiator \notin Decided(k)
  /\ \A m \in Members : decide[k][m] = "approving" =>
       Cardinality(approvals[k] \cup {m}) >= request[k].required
  /\ request[k].status = "APPROVED" => Cardinality(approvals[k]) >= request[k].required
  /\ rejections[k] # {} => request[k].status = "REJECTED"

DecisionsInOrder == \A k \in Keys : Exists(k) => DecisionsOf(k)

(* A version of an invoice that is, or was read as, a draft has no request *)
(* yet; a version that has one keeps the bank account of the request.      *)
VersionOf(k) ==
  LET i == Target(k) IN
  request[k].invoiceVersion = invoice[i].version =>
    /\ invoice[i].status # "NEEDS_REVIEW"
    /\ edit[i] # None /\ ~edit[i].invalidates => edit[i].version # invoice[i].version
    /\ invoice[i].bank = request[k].bank

VersionsInOrder ==
  /\ OneRequestPerVersion
  /\ \A k \in Keys : Exists(k) => VersionOf(k)
  /\ \A i \in Invoices : edit[i] # None => edit[i].version <= invoice[i].version

Inductive ==
  /\ KeysInOrder
  /\ LocksHold
  /\ DecisionsInOrder
  /\ VersionsInOrder

-----------------------------------------------------------------------------
(* What the documents claim and the code does not keep                     *)

(* "Enough approvals move the current invoice version to APPROVED"         *)
(* (docs/milestone-0.5.md): with enough approvals committed, and no        *)
(* decision under way, a request is not PENDING any more.                  *)
EnoughApprovalsComplete ==
  \A k \in Keys :
    /\ Pending(k)
    /\ Cardinality(approvals[k]) >= request[k].required
    => \E m \in Members : decide[k][m] # "idle"

(* "A rejection is reasoned and terminal" (docs/milestone-0.5.md): a       *)
(* rejected invoice stays rejected.                                        *)
RejectionIsTerminal ==
  [][\A i \in Invoices : invoice[i].status = "REJECTED"
                           => invoice'[i].status = "REJECTED"]_vars
=============================================================================
