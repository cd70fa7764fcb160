-------------------------- MODULE CompositionProofs --------------------------
(***************************************************************************)
(* What the composition rule of Policies promises for any number of        *)
(* answers: it keeps the risk floor, does not depend on the order of the   *)
(* answers, and never gets weaker when answers are added.                  *)
(***************************************************************************)
EXTENDS Policies, FiniteSetTheorems, TLAPS

\* _max_risk() returns one of the levels, and none of them is above it.
LEMMA MaxRisk ==
    ASSUME NEW S, S \subseteq RiskLevels, S # {}
    PROVE  _max_risk(S) \in S /\ \A y \in S : _max_risk(S) >= y
<1>1. \E x \in S : \A y \in S : x >= y
    <2>1. CASE 3 \in S
        BY <2>1 DEF RiskLevels, LOW, CRITICAL
    <2>2. CASE 3 \notin S /\ 2 \in S
        BY <2>2 DEF RiskLevels, LOW, CRITICAL
    <2>3. CASE 3 \notin S /\ 2 \notin S /\ 1 \in S
        BY <2>3 DEF RiskLevels, LOW, CRITICAL
    <2>4. CASE 3 \notin S /\ 2 \notin S /\ 1 \notin S
        <3>1. \A y \in S : y = 0
            BY <2>4 DEF RiskLevels, LOW, CRITICAL
        <3> QED BY <3>1
    <2> QED BY <2>1, <2>2, <2>3, <2>4
<1> QED BY <1>1 DEF _max_risk, Max

\* The effective risk is a risk level that is not below the contract's.
LEMMA EffectiveRiskFloor ==
    ASSUME NEW risk \in RiskLevels, NEW answers \in Seq(Answer)
    PROVE  EffectiveRisk(risk, answers) \in RiskLevels /\ EffectiveRisk(risk, answers) >= risk
<1> DEFINE S == {risk} \cup {answers[i].decision.risk : i \in DOMAIN answers}
<1>1. \A i \in DOMAIN answers : answers[i] \in Answer
    OBVIOUS
<1>2. \A i \in DOMAIN answers : answers[i].decision.risk \in RiskLevels
    BY <1>1 DEF Answer, PolicyDecisions, Decision
<1>3. S \subseteq RiskLevels /\ S # {} /\ risk \in S
    BY <1>2
<1> HIDE DEF S
<1>4. _max_risk(S) \in S /\ \A y \in S : _max_risk(S) >= y
    BY <1>3, MaxRisk
<1> QED BY <1>3, <1>4 DEF EffectiveRisk, S

(***************************************************************************)
(* Whatever the policies answer, evaluate() raises, denies, or returns a   *)
(* decision whose risk is at least the contract's and which demands        *)
(* approval when that risk is high (INV-POL-03, INV-POL-04).               *)
(***************************************************************************)
THEOREM EvaluationKeepsRiskFloor ==
    ASSUME NEW risk \in RiskLevels, NEW answers \in Seq(Answer)
    PROVE  LET d == Evaluate(risk, answers)
           IN  d # ValidationError =>
                  /\ d \in PolicyDecisions
                  /\ d.type # "deny" =>
                        /\ d.risk >= risk
                        /\ d.risk >= HIGH => d.type = "require_approval"
<1> DEFINE effective == EffectiveRisk(risk, answers)
           C == Chosen(answers, "allow_with_constraints")
           names == UNION {answers[i].decision.constraints : i \in C}
<1>1. effective \in RiskLevels /\ effective >= risk
    BY EffectiveRiskFloor
<1>2. \A i \in C : answers[i].decision \in PolicyDecisions
                     /\ answers[i].decision.type = "allow_with_constraints"
    <2>1. \A i \in DOMAIN answers : answers[i] \in Answer
        OBVIOUS
    <2> QED BY <2>1 DEF C, Chosen, Answer
<1>3. \A i \in C : answers[i].decision.constraints \subseteq Constraints
                     /\ answers[i].decision.constraints # {}
    BY <1>2 DEF PolicyDecisions, Decision, WellFormed
<1>4. names \subseteq Constraints /\ (C # {} => names # {})
    BY <1>3
<1> HIDE DEF effective, C, names
<1>5. \A type \in DecisionTypes, r \in RiskLevels, n \in SUBSET Constraints :
          (type = "allow_with_constraints" <=> n # {}) =>
              _decision(type, r, n) \in PolicyDecisions
    BY DEF _decision, PolicyDecisions, Decision, WellFormed
<1>6. \/ Evaluate(risk, answers) = _decision("deny", risk, {})
      \/ Evaluate(risk, answers) = _decision("deny", effective, {})
      \/ Evaluate(risk, answers) = _decision("require_approval", effective, {})
      \/ ~(effective >= HIGH) /\ Evaluate(risk, answers) = _decision("allow", effective, {})
      \/ Evaluate(risk, answers) = ValidationError
      \/ /\ ~(effective >= HIGH) /\ C # {}
         /\ Evaluate(risk, answers) = _decision("allow_with_constraints", effective, names)
    BY DEF Evaluate, _compose, _risk_at_least, effective, C, names
<1>7. /\ _decision("deny", risk, {}) \in PolicyDecisions
      /\ _decision("deny", effective, {}) \in PolicyDecisions
      /\ _decision("require_approval", effective, {}) \in PolicyDecisions
      /\ _decision("allow", effective, {}) \in PolicyDecisions
      /\ C # {} => _decision("allow_with_constraints", effective, names) \in PolicyDecisions
    BY <1>1, <1>4, <1>5 DEF DecisionTypes
<1>8. \A type, r, n : _decision(type, r, n).type = type /\ _decision(type, r, n).risk = r
    BY DEF _decision
<1> HIDE DEF ValidationError, Evaluate
<1> QED BY <1>1, <1>6, <1>7, <1>8


-----------------------------------------------------------------------------
(***************************************************************************)
(* Order.                                                                  *)
(***************************************************************************)

\* The same answers in another order.
LEMMA Permuted ==
    ASSUME NEW answers \in Seq(Answer), NEW f \in [DOMAIN answers -> DOMAIN answers],
           \A i, j \in DOMAIN answers : f[i] = f[j] => i = j
    PROVE  \A j \in DOMAIN answers : \E i \in DOMAIN answers : f[i] = j
<1> DEFINE S == DOMAIN answers
<1>1. IsFiniteSet(S)
    <2>1. S = 1..Len(answers) /\ Len(answers) \in Nat
        OBVIOUS
    <2> QED BY <2>1, FS_Interval
<1>2. f \in Injection(S, S)
    BY DEF Injection, IsInjective
<1> HIDE DEF S
<1>3. f \in Surjection(S, S)
    BY <1>1, <1>2, FS_Injection
<1> QED BY <1>3 DEF Surjection, S

(***************************************************************************)
(* The order of the policies does not matter, which ever of them raises,   *)
(* denies or adds constraints (engine.py:72-104, 315-389).                 *)
(***************************************************************************)
THEOREM EvaluationIgnoresOrder ==
    ASSUME NEW risk \in RiskLevels, NEW answers \in Seq(Answer),
           NEW f \in [DOMAIN answers -> DOMAIN answers],
           \A i, j \in DOMAIN answers : f[i] = f[j] => i = j,
           NEW other, other = [i \in DOMAIN answers |-> answers[f[i]]]
    PROVE  Evaluate(risk, other) = Evaluate(risk, answers)
<1>1. /\ DOMAIN other = DOMAIN answers
      /\ \A i \in DOMAIN answers : f[i] \in DOMAIN answers /\ other[i] = answers[f[i]]
    OBVIOUS
<1>2. \A j \in DOMAIN answers : \E i \in DOMAIN answers : f[i] = j
    BY Permuted
<1>3. \A type :
          /\ \A i \in Chosen(other, type) : f[i] \in Chosen(answers, type)
          /\ \A j \in Chosen(answers, type) : \E i \in Chosen(other, type) : f[i] = j
          /\ Chosen(other, type) \subseteq DOMAIN answers
    BY <1>1, <1>2 DEF Chosen
<1>4. \A type : Chosen(other, type) = {} <=> Chosen(answers, type) = {}
    BY <1>3
<1>5. {other[i].decision.risk : i \in DOMAIN other}
        = {answers[i].decision.risk : i \in DOMAIN answers}
    BY <1>1, <1>2
<1>6. EffectiveRisk(risk, other) = EffectiveRisk(risk, answers)
    BY <1>5 DEF EffectiveRisk
<1>7. SharedName(other) <=> SharedName(answers)
    <2> DEFINE C == Chosen(answers, "allow_with_constraints")
               D == Chosen(other, "allow_with_constraints")
    <2>1. /\ \A i \in D : f[i] \in C /\ i \in DOMAIN answers
          /\ \A j \in C : \E i \in D : f[i] = j
        BY <1>3
    <2>2. SharedName(other) <=>
              \E i, j \in D :
                  i # j /\ other[i].decision.constraints \cap other[j].decision.constraints # {}
        BY DEF SharedName
    <2>3. SharedName(answers) <=>
              \E i, j \in C :
                  i # j /\ answers[i].decision.constraints \cap answers[j].decision.constraints # {}
        BY DEF SharedName
    <2> HIDE DEF C, D
    <2>4. SharedName(other) => SharedName(answers)
        BY <1>1, <2>1, <2>2, <2>3
    <2>5. SharedName(answers) => SharedName(other)
        BY <1>1, <2>1, <2>2, <2>3
    <2> QED BY <2>4, <2>5
<1>8. UNION {other[i].decision.constraints : i \in Chosen(other, "allow_with_constraints")}
        = UNION {answers[i].decision.constraints : i \in Chosen(answers, "allow_with_constraints")}
    <2> DEFINE C == Chosen(answers, "allow_with_constraints")
               D == Chosen(other, "allow_with_constraints")
    <2>1. /\ \A i \in D : f[i] \in C /\ i \in DOMAIN answers
          /\ \A j \in C : \E i \in D : f[i] = j
        BY <1>3
    <2> HIDE DEF C, D
    <2>2. \A i \in D : other[i].decision.constraints = answers[f[i]].decision.constraints
        BY <1>1, <2>1
    <2>3. {other[i].decision.constraints : i \in D} \subseteq {answers[i].decision.constraints : i \in C}
        BY <2>1, <2>2
    <2>4. ASSUME NEW j \in C
          PROVE  answers[j].decision.constraints \in {other[i].decision.constraints : i \in D}
        <3>1. PICK i \in D : f[i] = j
            BY <2>1
        <3> QED BY <2>2, <3>1
    <2>5. {other[i].decision.constraints : i \in D} = {answers[i].decision.constraints : i \in C}
        <3> DEFINE P == {other[i].decision.constraints : i \in D}
                   Q == {answers[i].decision.constraints : i \in C}
        <3>1. \A q \in Q : q \in P
            BY <2>4
        <3>2. \A p \in P : p \in Q
            BY <2>3
        <3> HIDE DEF P, Q
        <3>3. P = Q
            BY <3>1, <3>2
        <3> QED BY <3>3 DEF P, Q
    <2> QED BY <2>5 DEF C, D
<1>9. _compose(risk, other) = _compose(risk, answers)
    BY <1>4, <1>6, <1>7, <1>8 DEF _compose
<1>10. (\E i \in DOMAIN other : other[i].kind # "decision")
          <=> (\E i \in DOMAIN answers : answers[i].kind # "decision")
    BY <1>1, <1>2
<1> QED BY <1>9, <1>10 DEF Evaluate

-----------------------------------------------------------------------------
(***************************************************************************)
(* Strictness.                                                             *)
(***************************************************************************)

\* What kind of outcome the composition has.
LEMMA ComposedType ==
    ASSUME NEW risk, NEW answers
    PROVE  LET d == _compose(risk, answers)
               needed == _risk_at_least(EffectiveRisk(risk, answers), HIGH)
                           \/ Chosen(answers, "require_approval") # {}
           IN  \/ Chosen(answers, "deny") # {} /\ d.type = "deny"
               \/ Chosen(answers, "deny") = {} /\ needed /\ d.type = "require_approval"
               \/ /\ Chosen(answers, "deny") = {} /\ ~needed
                  /\ Chosen(answers, "allow_with_constraints") = {} /\ d.type = "allow"
               \/ /\ Chosen(answers, "deny") = {} /\ ~needed
                  /\ Chosen(answers, "allow_with_constraints") # {}
                  /\ d = ValidationError \/ d.type = "allow_with_constraints"
BY DEF _compose, _decision

\* A type of decision and what is at least as strict.
AtLeastAsStrict(type) ==
    CASE type = "allow" -> {"allow", "allow_with_constraints", "require_approval", "deny"}
      [] type = "allow_with_constraints" -> {"allow_with_constraints", "require_approval", "deny"}
      [] type = "require_approval" -> {"require_approval", "deny"}
      [] type = "deny" -> {"deny"}

(***************************************************************************)
(* More answers never yield a weaker decision: what some of them deny, or  *)
(* want approved or constrained, all of them do too.                       *)
(***************************************************************************)
THEOREM MoreAnswersAreStricter ==
    ASSUME NEW risk \in RiskLevels, NEW answers \in Seq(Answer), NEW fewer \in Seq(Answer),
           DOMAIN fewer \subseteq DOMAIN answers,
           \A i \in DOMAIN fewer : fewer[i] = answers[i],
           Evaluate(risk, fewer) # ValidationError, Evaluate(risk, answers) # ValidationError
    PROVE  Evaluate(risk, answers).type \in AtLeastAsStrict(Evaluate(risk, fewer).type)
<1>1. \A type : Chosen(fewer, type) \subseteq Chosen(answers, type)
    BY DEF Chosen
<1>2. EffectiveRisk(risk, answers) >= EffectiveRisk(risk, fewer)
    <2> DEFINE S == {risk} \cup {answers[i].decision.risk : i \in DOMAIN answers}
               T == {risk} \cup {fewer[i].decision.risk : i \in DOMAIN fewer}
    <2>1. \A i \in DOMAIN answers : answers[i].decision.risk \in RiskLevels
        <3>1. \A i \in DOMAIN answers : answers[i] \in Answer
            OBVIOUS
        <3> QED BY <3>1 DEF Answer, PolicyDecisions, Decision
    <2>2. S \subseteq RiskLevels /\ T \subseteq S /\ T # {} /\ S # {}
        BY <2>1
    <2> HIDE DEF S, T
    <2>3. _max_risk(T) \in T /\ \A y \in S : _max_risk(S) >= y
        BY <2>2, MaxRisk
    <2> QED BY <2>2, <2>3 DEF EffectiveRisk, S, T
<1>3. EffectiveRisk(risk, answers) \in RiskLevels /\ EffectiveRisk(risk, fewer) \in RiskLevels
    BY EffectiveRiskFloor
<1>4. _risk_at_least(EffectiveRisk(risk, fewer), HIGH) =>
          _risk_at_least(EffectiveRisk(risk, answers), HIGH)
    BY <1>2, <1>3 DEF _risk_at_least, RiskLevels, HIGH, LOW, CRITICAL
<1>5. CASE \E i \in DOMAIN answers : answers[i].kind # "decision"
    <2>1. Evaluate(risk, answers).type = "deny"
        BY <1>5 DEF Evaluate, _decision
    <2>2. Evaluate(risk, fewer).type \in {"allow", "allow_with_constraints", "require_approval", "deny"}
        <3>1. CASE \E i \in DOMAIN fewer : fewer[i].kind # "decision"
            BY <3>1 DEF Evaluate, _decision
        <3>2. CASE ~\E i \in DOMAIN fewer : fewer[i].kind # "decision"
            <4>1. Evaluate(risk, fewer) = _compose(risk, fewer)
                BY <3>2 DEF Evaluate
            <4> QED BY <4>1, ComposedType
        <3> QED BY <3>1, <3>2
    <2> QED BY <2>1, <2>2 DEF AtLeastAsStrict
<1>6. CASE ~\E i \in DOMAIN answers : answers[i].kind # "decision"
    <2>1. Evaluate(risk, answers) = _compose(risk, answers)
        BY <1>6 DEF Evaluate
    <2>2. Evaluate(risk, fewer) = _compose(risk, fewer)
        BY <1>6 DEF Evaluate
    <2>3. PICK d : d = _compose(risk, answers)
        OBVIOUS
    <2>4. PICK e : e = _compose(risk, fewer)
        OBVIOUS
    <2>5. /\ d # ValidationError /\ e # ValidationError
        BY <2>1, <2>2, <2>3, <2>4
    <2> HIDE DEF ValidationError
    <2>6. \/ d.type = "deny"
          \/ d.type = "require_approval" /\ e.type # "deny"
                /\ e.type \in {"allow", "allow_with_constraints", "require_approval"}
          \/ d.type = "allow_with_constraints" /\ e.type \in {"allow", "allow_with_constraints"}
          \/ d.type = "allow" /\ e.type = "allow"
        BY <1>1, <1>4, <2>3, <2>4, <2>5, ComposedType
    <2>7. e.type \in {"allow", "allow_with_constraints", "require_approval", "deny"}
        BY <2>4, <2>5, ComposedType
    <2> QED BY <2>1, <2>2, <2>3, <2>4, <2>6, <2>7 DEF AtLeastAsStrict
<1> QED BY <1>5, <1>6
=============================================================================
