---------------------------- MODULE MCRiskPolicy ----------------------------
(* Values for the runs of RiskPolicy: the defaults of the schema, what     *)
(* owners send, and the invoices that are submitted.                       *)
EXTENDS RiskPolicy, TLC

MCDefaults ==
  [version |-> 1, medium |-> 30, high |-> 70,
   score |-> [rule \in Rules |->
     CASE rule = "bank" -> 70 [] rule = "document" -> 70 [] rule = "number" -> 35
       [] rule = "limit" -> 50 [] rule = "spike" -> 25]]

MCPatches == {[medium |-> 60, high |-> None, bank |-> None],
              [medium |-> 30, high |-> 50, bank |-> 20]}

Plain == [bankVersion |-> 1, exactDuplicate |-> FALSE, duplicateNumber |-> FALSE,
          total |-> 10, limit |-> NoAmount, average |-> 0]
MCFacts == {[Plain EXCEPT !.bankVersion = 2],
            [Plain EXCEPT !.bankVersion = 2, !.duplicateNumber = TRUE, !.average = 5]}

(* Bounds: passkeys on their own, with two challenges or one request under *)
(* way at a time, or the policy of an owner with one session and two       *)
(* challenges, while no passkey request is under way and until two         *)
(* submissions are stored.                                                 *)
PasskeysAlone == /\ policies = {} /\ \A r \in Requests : work[r] = "idle"
                 /\ \/ Cardinality({c \in Challenges : Issued(c)}) <= 2
                    \/ Cardinality({r \in Requests : phase[r] # "idle"}) <= 1
OwnerAtWork == /\ \A r \in Requests : phase[r] = "idle"
               /\ Cardinality({c \in Challenges : Issued(c)}) <= 2
               /\ Cardinality(assessments) <= 1
               /\ Cardinality({s \in SessionIds : login[s] # None}) <= 1
Explored == PasskeysAlone \/ OwnerAtWork

Interchangeable == Permutations(Requests) \cup Permutations(SessionIds) \cup Permutations(Devices)
=============================================================================
