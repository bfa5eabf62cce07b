----------------------------- MODULE RiskPolicy -----------------------------
(***************************************************************************)
(* The risk policy of an organization, behind StepUpGuard: one row,        *)
(* created by the first transaction that needs it, patched by updatePolicy *)
(* and read by every submission, which stores the version it was assessed  *)
(* with.                                                                   *)
(*                                                                         *)
(* Transactions run under READ COMMITTED; the first INSERT of the row      *)
(* makes others wait, and fail on the unique index when it commits.  The   *)
(* UPDATE and the commit that follows it are one step: it waits for the    *)
(* row and then changes what it finds there, not what was read before.     *)
(* What a submission does besides is in InvoiceApproval.                   *)
(***************************************************************************)
EXTENDS Passkeys, RiskEngine

CONSTANTS Defaults,     \* the row the schema's defaults make
          Patches,      \* what an owner may send, None where a field is absent
          Facts,        \* facts of the invoices that are submitted
          MaxVersion    \* bound: updates of the policy

Policy == [version : 1..MaxVersion, medium : Nat, high : Nat, score : [Rules -> Nat]]

Patch == [medium : Nat \cup {None}, high : Nat \cup {None}, bank : Nat \cup {None}]

ASSUME PolicyAssumption ==
  /\ Defaults \in Policy /\ Defaults.version = 1 /\ Defaults.medium < Defaults.high
  /\ Patches \subseteq Patch /\ MaxVersion \in Nat
  /\ None \notin Policy \cup Patches

VARIABLES policy,        \* the committed row, or None
          work,          \* what each policy transaction has done
          patch,         \* what it was asked to change, by whom; None for a submission
          seen,          \* the row it has read or inserted
          assessments,   \* the RiskAssessment table
          policies,      \* history: every row that was ever committed
          changes        \* history: who changed the policy, and when it was asked

policyVars == <<policy, work, patch, seen, assessments, policies, changes>>

Works == {"idle", "inserting", "inserted", "read"}

Init == /\ PasskeyInit
        /\ policy = None /\ assessments = {} /\ policies = {} /\ changes = {}
        /\ work = [r \in Requests |-> "idle"]
        /\ patch = [r \in Requests |-> None]
        /\ seen = [r \in Requests |-> None]

Move(r, to)  == work' = [work EXCEPT ![r] = to]
Saw(r, row)  == seen' = [seen EXCEPT ![r] = row]
Finish(r)    == Move(r, "idle") /\ Saw(r, None) /\ patch' = [patch EXCEPT ![r] = None]

(* policy(): the row if there is one, and otherwise an INSERT that waits   *)
(* for another transaction's, and fails if that one commits.               *)
Read(r, p) ==
  /\ work[r] = "idle"
  /\ patch' = [patch EXCEPT ![r] = p]
  /\ \/ policy = None /\ Move(r, "inserting") /\ UNCHANGED seen
     \/ policy # None /\ Move(r, "read") /\ Saw(r, policy)
  /\ UNCHANGED <<policy, assessments, policies>>

(* updatePolicy is behind StepUpGuard, a submission is not.                *)
BeginUpdate(r, s, p) == /\ Recent(s)
                        /\ Read(r, [fields |-> p, session |-> s, asked |-> now])
                        /\ UNCHANGED changes
BeginSubmission(r) == Read(r, None) /\ UNCHANGED changes

Insert(r) ==
  /\ work[r] = "inserting"
  /\ \A q \in Requests : work[q] # "inserted"
  /\ \/ policy = None /\ Move(r, "inserted") /\ Saw(r, Defaults) /\ UNCHANGED patch
     \/ policy # None /\ Finish(r)
  /\ UNCHANGED <<policy, assessments, policies, changes>>

HasRow(r) == work[r] \in {"inserted", "read"}

(* Variant, for the runs' mutants: an own INSERT is not seen.              *)
Committed(r) == policy

(* What the transaction itself would find in the table.                    *)
Row(r) == IF work[r] = "inserted" THEN Defaults ELSE policy

Commit(r, row) == /\ policy' = row
                  /\ policies' = policies \cup {row}
                  /\ Finish(r)

Sent(r, field) == patch[r].fields[field] # None
Changed(r, row, field) == IF Sent(r, field) THEN patch[r].fields[field] ELSE row[field]

(* Variants, for the runs' mutants: the version comes from the row read    *)
(* before; the table has no CHECK constraint.                              *)
VersionRead(r) == seen[r].version + 1
Unchecked(row) == TRUE

NextVersion(r) == Row(r).version + 1

(* The CHECK constraint of the table.                                      *)
ThresholdsCheck(row) == row.medium > 0 /\ row.high > row.medium

Patched(r) == [version |-> NextVersion(r),
               medium  |-> Changed(r, Row(r), "medium"),
               high    |-> Changed(r, Row(r), "high"),
               score   |-> IF Sent(r, "bank") THEN [Row(r).score EXCEPT !["bank"] = patch[r].fields.bank]
                           ELSE Row(r).score]

(* updatePolicy refuses thresholds by the row it has read; the UPDATE      *)
(* patches the row it finds, and the CHECK constraint has the last word.   *)
Acceptable(r) == /\ Changed(r, seen[r], "medium") < Changed(r, seen[r], "high")
                 /\ ThresholdsCheck(Patched(r))

UpdatePolicy(r) ==
  /\ HasRow(r) /\ patch[r] # None
  /\ NextVersion(r) <= MaxVersion
  /\ \/ /\ Acceptable(r)
        /\ Commit(r, Patched(r))
        /\ changes' = changes \cup {[session |-> patch[r].session, asked |-> patch[r].asked]}
     \/ /\ ~Acceptable(r)
        /\ Finish(r)
        /\ UNCHANGED <<policy, policies, changes>>
  /\ UNCHANGED assessments

(* A submission evaluates the facts by the row it has read, and commits.   *)
Assess(r, facts) ==
  /\ HasRow(r) /\ patch[r] = None
  /\ assessments' = assessments \cup
       {[facts |-> facts, version |-> seen[r].version, level |-> Evaluate(seen[r], facts)]}
  /\ Commit(r, Row(r))
  /\ UNCHANGED changes

(* The transaction fails elsewhere, or exceeds its time.                   *)
Abandon(r) == /\ work[r] # "idle"
              /\ Finish(r)
              /\ UNCHANGED <<policy, assessments, policies, changes>>

PolicyNext == \E r \in Requests :
  \/ \E s \in SessionIds, p \in Patches : BeginUpdate(r, s, p)
  \/ BeginSubmission(r)
  \/ Insert(r) \/ UpdatePolicy(r) \/ Abandon(r)
  \/ \E facts \in Facts : Assess(r, facts)

Next == \/ PasskeyNext /\ UNCHANGED policyVars
        \/ PolicyNext /\ UNCHANGED passkeys

Spec == Init /\ [][Next]_<<passkeys, policyVars>>
-----------------------------------------------------------------------------
TypeOK ==
  /\ PasskeysTypeOK
  /\ policy \in Policy \cup {None} /\ policies \subseteq Policy
  /\ work \in [Requests -> Works] /\ seen \in [Requests -> Policy \cup {None}]
  /\ \A r \in Requests : patch[r] # None => /\ patch[r].fields \in Patches
                                          /\ patch[r].session \in SessionIds
                                          /\ patch[r].asked \in Times
  /\ \A a \in assessments : a.level \in {"LOW", "MEDIUM", "HIGH"}

(* The version an assessment stores names the thresholds and scores it was *)
(* made with, and evaluating its facts by them again gives its level,      *)
(* although the policy may have changed before the submission committed.   *)
AssessmentsReproducible ==
  /\ \A p, q \in policies : p.version = q.version => p = q
  /\ \A a \in assessments : \E p \in policies :
        p.version = a.version /\ a.level = Evaluate(p, a.facts)

(* Two owners who move a threshold at once leave them in order, although   *)
(* each compares its own with the one it has read.                         *)
ThresholdsOrdered == \A p \in policies : p.medium < p.high

Rank(level) == CASE level = "LOW" -> 0 [] level = "MEDIUM" -> 1 [] level = "HIGH" -> 2

(* Under any policy in force, an invoice that gives more reasons for       *)
(* concern is never assessed as less risky.                                *)
MoreReasonsHigherLevel ==
  \A f, g \in Facts : Contributions(f) \subseteq Contributions(g) =>
     \A p \in policies : Rank(Evaluate(p, f)) <= Rank(Evaluate(p, g))

(* Every change of the policy was asked for by a session that had proved a *)
(* passkey a short while before, by a challenge accepted for that session. *)
PolicyChangesVerified ==
  \A ch \in changes : \E t \in verified[ch.session] :
     t <= ch.asked /\ ch.asked - t <= StepUpTtl
=============================================================================
