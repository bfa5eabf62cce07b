--------------------------- MODULE ApprovalHistory ---------------------------
(***************************************************************************)
(* InvoiceApproval with history variables: which requests and decisions    *)
(* overlapped with what, as long as the request is PENDING.  They restrict *)
(* no step, and say under which overlaps alone the workflow falls short of *)
(* what its documents promise.                                             *)
(***************************************************************************)
EXTENDS InvoiceApproval

VARIABLES escaped,      \* requests submitted while a bank account was replaced
          overtaken,    \* open decisions, and a new bank account came meanwhile
          overlapped    \* requests two members at once approved, neither the last

history == <<escaped, overtaken, overlapped>>
hvars == <<vars, history>>

HInit == Init /\ escaped = {} /\ overtaken = {} /\ overlapped = {}

VendorOf(i) == invoice[i].vendor

(* The sweep of an open addBankVersion has looked for its requests.        *)
Sweeping(v) == bankTx[v] # None /\ bankTx[v].phase # "inserted"

(* A submission commits after the account it has read was replaced, or     *)
(* when the sweep for the next account no longer looks for requests.       *)
NoteEscape ==
  escaped' =
    {k \in Keys :
       /\ Pending(k)'
       /\ \/ k \in escaped
          \/ /\ ~Exists(k)
             /\ LET v == VendorOf(submit[k].invoice) IN
                  submit[k].bank # bank[v] \/ Sweeping(v)}

(* A bank account is committed while a decision on an invoice of its       *)
(* vendor is open.                                                         *)
NoteOvertaking ==
  overtaken' =
    {km \in Keys \X Members :
       /\ Pending(km[1])' /\ decide'[km[1]][km[2]] # "idle"
       /\ \/ km \in overtaken
          \/ LET v == VendorOf(Target(km[1])) IN bank'[v] # bank[v]}

Partials(k) == {m \in Members : decide[k][m] = "partial"}

(* Two approvals, neither of which completes the request by its own count, *)
(* are under way at once.                                                  *)
NoteOverlap ==
  overlapped' =
    {k \in Keys :
       /\ Pending(k)'
       /\ k \in overlapped \/ \E m, n \in Partials(k)' : m # n}

HNext == Next /\ NoteEscape /\ NoteOvertaking /\ NoteOverlap

HSpec == HInit /\ [][HNext]_hvars

HTypeOK == /\ escaped \subseteq Keys
           /\ overtaken \subseteq Keys \X Members
           /\ overlapped \subseteq Keys

-----------------------------------------------------------------------------
(* Properties                                                              *)

(* A request is approved for the account that is its vendor's latest: the  *)
(* comparison in submit, the one in decide and the sweep of addBankVersion *)
(* leave no other way than a submission that overlapped with a new account *)
(* and whose deciding approval overlapped with one as well.                *)
ApprovedForLatestAccount ==
  [][\A k \in Keys :
       Pending(k) /\ request'[k].status = "APPROVED" =>
         \/ request[k].bank = bank[VendorOf(Target(k))]
         \/ /\ k \in escaped
            /\ \E m \in Members : /\ <<k, m>> \in overtaken
                                  /\ decide[k][m] = "approving"
                                  /\ decide'[k][m] = "idle"]_hvars

(* An invoice that awaits approval has a request that decisions can still  *)
(* complete: PENDING, for the present version and bank account, unopposed  *)
(* and short of approvals.  The exception is the request of which two      *)
(* approvals did not see each other (decide, update, addBankVersion).      *)
(* That eligible approvers remain is not claimed.                          *)
AwaitingInvoiceIsServed ==
  \A i \in Invoices : invoice[i].status = "AWAITING_APPROVAL" =>
    \E k \in Keys : /\ Pending(k)
                    /\ Target(k) = i
                    /\ request[k].invoiceVersion = invoice[i].version
                    /\ request[k].bank = invoice[i].bank
                    /\ rejections[k] = {}
                    /\ \/ Cardinality(approvals[k]) < request[k].required
                       \/ k \in overlapped

-----------------------------------------------------------------------------
(* The inductive strengthening of the properties above                     *)

(* A request that is PENDING and did not escape is for the present version *)
(* and the latest account, and no sweep under way has missed it.           *)
Fits(k) == /\ request[k].invoiceVersion = invoice[Target(k)].version
           /\ request[k].bank = bank[VendorOf(Target(k))]

Swept(k) == LET v == VendorOf(Target(k)) IN
  Sweeping(v) => k \in bankTx[v].foundRequests \cup bankTx[v].requests

AccountsInOrder ==
  /\ \A k \in Keys : submit[k] # None => submit[k].bank > 0
  /\ \A k \in Keys : Exists(k) => request[k].bank > 0
  /\ \A k \in Keys : Pending(k) /\ k \notin escaped => Fits(k) /\ Swept(k)
  /\ \A k \in Keys, m \in Members :
       Pending(k) /\ decide[k][m] # "idle" /\ <<k, m>> \notin overtaken => Fits(k)

(* What a count that did not complete the request was good for.            *)
CountsInOrder ==
  \A k \in Keys : Pending(k) /\ k \notin overlapped =>
    /\ Cardinality(approvals[k]) < request[k].required
    /\ \A m \in Partials(k) :
         /\ Partials(k) = {m}
         /\ Cardinality(approvals[k] \cup {m}) < request[k].required

HInductive == HTypeOK /\ AccountsInOrder /\ CountsInOrder
=============================================================================
