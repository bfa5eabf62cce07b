----------------------------- MODULE RiskEngine -----------------------------
(***************************************************************************)
(* evaluateInvoiceRisk of risk-engine.ts: which rules an invoice's facts   *)
(* trigger, the total of their scores under a policy, and its level.       *)
(* Explanations, evidence links and the evidence hash are left out.        *)
(***************************************************************************)
EXTENDS Integers, FiniteSetsExt

Rules == {"bank", "document", "number", "limit", "spike"}

(* Amounts are numbers, NoAmount where the code has null.                  *)
NoAmount == -1

Applies(rule, facts) ==
  \/ rule = "bank"     /\ facts.bankVersion > 1
  \/ rule = "document" /\ facts.exactDuplicate
  \/ rule = "number"   /\ facts.duplicateNumber
  \/ rule = "limit"    /\ facts.total # NoAmount /\ facts.limit # NoAmount
                       /\ facts.total > facts.limit
  \/ rule = "spike"    /\ facts.total # NoAmount /\ facts.average > 0
                       /\ facts.total >= 2 * facts.average

Contributions(facts) == {rule \in Rules : Applies(rule, facts)}

(* Variant, for the runs' mutants: the weakest reason decides.             *)
WeakestScore(policy, facts) ==
  IF Contributions(facts) = {} THEN 0
  ELSE Min({policy.score[rule] : rule \in Contributions(facts)})

ScoreOf(policy, facts, rule) == IF Applies(rule, facts) THEN policy.score[rule] ELSE 0

TotalScore(policy, facts) ==
  ScoreOf(policy, facts, "bank") + ScoreOf(policy, facts, "document")
  + ScoreOf(policy, facts, "number") + ScoreOf(policy, facts, "limit")
  + ScoreOf(policy, facts, "spike")

LevelOf(policy, total) == IF total >= policy.high THEN "HIGH"
                          ELSE IF total >= policy.medium THEN "MEDIUM" ELSE "LOW"

Evaluate(policy, facts) == LevelOf(policy, TotalScore(policy, facts))
=============================================================================
