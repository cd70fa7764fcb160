------------------------------ MODULE Policies ------------------------------
(***************************************************************************)
(* Policy decisions and the composition rule of                            *)
(* src/agentactum/policies/engine.py and policies/models.py.  Identifiers, *)
(* reasons and timestamps are left out; a constraint is its name, the      *)
(* tuple of constraints is the set of them, and the risk levels are their  *)
(* _RISK_RANK.                                                             *)
(***************************************************************************)
EXTENDS Integers, Sequences, FiniteSetsExt

CONSTANTS
    Constraints,    \* constraint names
    None            \* Python's None

LOW == 0
HIGH == 2
CRITICAL == 3
RiskLevels == LOW..CRITICAL

DecisionTypes == {"allow", "deny", "require_approval", "allow_with_constraints"}

Decision == [type : DecisionTypes, risk : RiskLevels, constraints : SUBSET Constraints]

\* PolicyDecision.validate_constraints, for decisions with distinct names
WellFormed(d) == d.type = "allow_with_constraints" <=> d.constraints # {}

PolicyDecisions == {d \in Decision : WellFormed(d)}

\* The pydantic error of a decision whose constraint names are not unique.
ValidationError == [type |-> "ValidationError", risk |-> LOW, constraints |-> {}]

_decision(type, risk, constraints) ==
    [type |-> type, risk |-> risk, constraints |-> constraints]

(***************************************************************************)
(* What policy.evaluate() hands to the engine: a decision for the action,  *)
(* a decision for another intent, a value that is no PolicyDecision, or an *)
(* exception.                                                              *)
(***************************************************************************)
AnswerKinds == {"decision", "wrong_intent", "invalid", "raises"}

Answer == [kind : AnswerKinds, decision : PolicyDecisions]

_max_risk(levels) == Max(levels)

_risk_at_least(actual, minimum) == actual >= minimum

Chosen(answers, type) == {i \in DOMAIN answers : answers[i].decision.type = type}

\* @mutant of EffectiveRisk: the policies' risk replaces the contract's.
DecidedRisk(risk, answers) ==
    IF answers = <<>> THEN risk
    ELSE _max_risk({answers[i].decision.risk : i \in DOMAIN answers})

EffectiveRisk(risk, answers) ==
    _max_risk({risk} \cup {answers[i].decision.risk : i \in DOMAIN answers})

\* Two constrained decisions that name the same constraint.
SharedName(answers) ==
    \E i, j \in Chosen(answers, "allow_with_constraints") :
        i # j /\ answers[i].decision.constraints \cap answers[j].decision.constraints # {}

\* @mutant of _compose: the last decision that is not a plain allow wins.
LastDecisionWins(risk, answers) ==
    LET strict    == {i \in DOMAIN answers : answers[i].decision.type # "allow"}
        effective == EffectiveRisk(risk, answers)
    IN  IF strict = {} THEN _decision("allow", effective, {})
        ELSE [answers[Max(strict)].decision EXCEPT !.risk = effective]

\* @mutant of _compose: the collected constraints are not passed on.
ComposeDropsConstraints(risk, answers) ==
    LET effective == EffectiveRisk(risk, answers)
    IN  IF Chosen(answers, "deny") # {} THEN _decision("deny", effective, {})
        ELSE IF _risk_at_least(effective, HIGH) \/ Chosen(answers, "require_approval") # {}
             THEN _decision("require_approval", effective, {})
        ELSE IF Chosen(answers, "allow_with_constraints") = {}
             THEN _decision("allow", effective, {})
        ELSE _decision("allow_with_constraints", effective, {})

(***************************************************************************)
(* Denial first, then approval, then constraints.  The constraints of all  *)
(* constrained decisions are concatenated, so a shared name makes the new  *)
(* decision invalid and its constructor raises.                            *)
(***************************************************************************)
_compose(risk, answers) ==
    LET effective   == EffectiveRisk(risk, answers)
        constrained == Chosen(answers, "allow_with_constraints")
    IN  IF Chosen(answers, "deny") # {} THEN _decision("deny", effective, {})
        ELSE IF _risk_at_least(effective, HIGH) \/ Chosen(answers, "require_approval") # {}
             THEN _decision("require_approval", effective, {})
        ELSE IF constrained = {} THEN _decision("allow", effective, {})
        ELSE IF SharedName(answers) THEN ValidationError
        ELSE _decision("allow_with_constraints", effective,
                       UNION {answers[i].decision.constraints : i \in constrained})

(***************************************************************************)
(* PolicyEngine.evaluate for an action that matches its contract, as a     *)
(* function of the answers of the policies: the loop denies at the first   *)
(* answer that is not a decision for this action.                          *)
(***************************************************************************)
Evaluate(risk, answers) ==
    IF \E i \in DOMAIN answers : answers[i].kind # "decision"
    THEN _decision("deny", risk, {})
    ELSE _compose(risk, answers)
=============================================================================
