---------------------------- MODULE DualControl ----------------------------
(***************************************************************************)
(* What the approval workflow promises of each request, whatever happens   *)
(* inside: distinct people other than its owner endorse it, one objection  *)
(* rejects it, a verdict is never taken back, and the verdict APPROVED     *)
(* takes as many endorsements as its quorum and no objection.              *)
(*                                                                         *)
(* It does not promise that the endorsement which fills the quorum also    *)
(* gives the verdict: two that are entered at the same time may both leave *)
(* the request open (see EnoughApprovalsComplete in InvoiceApproval).      *)
(***************************************************************************)
EXTENDS Naturals, FiniteSets

CONSTANTS People,     \* those who open requests and decide on them
          Requests,   \* the requests there may be
          Nobody      \* the owner of a request not opened yet

VARIABLES verdict,    \* NONE until the request is opened, then PENDING
          quorum,     \* endorsements the verdict APPROVED takes
          owner,      \* who opened the request
          endorsers,  \* who approved it
          objectors   \* who rejected it

vars == <<verdict, quorum, owner, endorsers, objectors>>

Init ==
  /\ verdict = [r \in Requests |-> "NONE"]
  /\ quorum = [r \in Requests |-> 0]
  /\ owner = [r \in Requests |-> Nobody]
  /\ endorsers = [r \in Requests |-> {}]
  /\ objectors = [r \in Requests |-> {}]

Open(r, p, n) ==
  /\ verdict[r] = "NONE"
  /\ verdict' = [verdict EXCEPT ![r] = "PENDING"]
  /\ quorum' = [quorum EXCEPT ![r] = n]
  /\ owner' = [owner EXCEPT ![r] = p]
  /\ UNCHANGED <<endorsers, objectors>>

(* Someone other than the owner who has not decided on the request yet.    *)
MayStillDecide(r, p) ==
  /\ verdict[r] # "NONE"
  /\ p # owner[r]
  /\ p \notin endorsers[r] \cup objectors[r]

Endorse(r, p) ==
  /\ MayStillDecide(r, p)
  /\ endorsers' = [endorsers EXCEPT ![r] = @ \cup {p}]
  /\ UNCHANGED <<verdict, quorum, owner, objectors>>

EndorseAndApprove(r, p) ==
  /\ MayStillDecide(r, p)
  /\ verdict[r] \in {"PENDING", "APPROVED"}
  /\ Cardinality(endorsers[r] \cup {p}) >= quorum[r]
  /\ endorsers' = [endorsers EXCEPT ![r] = @ \cup {p}]
  /\ verdict' = [verdict EXCEPT ![r] = "APPROVED"]
  /\ UNCHANGED <<quorum, owner, objectors>>

Object(r, p) ==
  /\ MayStillDecide(r, p)
  /\ verdict[r] \in {"PENDING", "REJECTED"}
  /\ objectors' = [objectors EXCEPT ![r] = @ \cup {p}]
  /\ verdict' = [verdict EXCEPT ![r] = "REJECTED"]
  /\ UNCHANGED <<quorum, owner, endorsers>>

(* Pending requests are invalidated together, with what they were about.   *)
Void(S) ==
  /\ \A r \in S : verdict[r] = "PENDING"
  /\ verdict' = [r \in Requests |-> IF r \in S THEN "INVALIDATED" ELSE verdict[r]]
  /\ UNCHANGED <<quorum, owner, endorsers, objectors>>

Next ==
  \/ \E r \in Requests, p \in People :
       \/ \E n \in 1..2 : Open(r, p, n)
       \/ Endorse(r, p)
       \/ EndorseAndApprove(r, p)
       \/ Object(r, p)
  \/ \E S \in SUBSET Requests : Void(S)

Spec == Init /\ [][Next]_vars

=============================================================================
