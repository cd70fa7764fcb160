---------------------------- MODULE PolicyProofs ----------------------------
(***************************************************************************)
(* Proofs about PolicyEngine for any actions, contracts and contexts, and  *)
(* engines with any number of policies.                                    *)
(***************************************************************************)
EXTENDS PolicyEngine, CompositionProofs, SequenceTheorems

\* Every answer so far is a decision for the action.
AllDecided == \A i \in DOMAIN consulted : consulted[i].kind = "decision"

\* Nobody is asked before the call, or for an action without its contract.
NothingAsked ==
    /\ call = None => consulted = <<>> /\ outcome = None
    /\ call # None /\ ~Bound(call) =>
          consulted = <<>> /\ (outcome # None => outcome.type = "deny")

\* The answers are those of the first policies, in their order.
AskedInOrder ==
    call # None /\ Bound(call) =>
        /\ Len(consulted) <= Len(call.policies)
        /\ \A i \in DOMAIN consulted : consulted[i] \in AnswersOf(call.policies[i], call)

(***************************************************************************)
(* The loop computes Evaluate(): it goes on while all have decided, and    *)
(* what it ends with is what Evaluate() says of the answers it has seen.   *)
(***************************************************************************)
LoopEvaluates ==
    call # None /\ Bound(call) =>
        /\ outcome = None => AllDecided
        /\ outcome # None =>
              /\ outcome = Evaluate(call.contract.risk, consulted)
              /\ AllDecided => Len(consulted) = Len(call.policies)

PInv ==
    /\ TypeOK
    /\ NothingAsked
    /\ AskedInOrder
    /\ LoopEvaluates

-----------------------------------------------------------------------------
\* What a call consists of.
LEMMA CallTyped ==
    ASSUME NEW c \in Calls, c # None, Bound(c)
    PROVE  /\ c.contract \in Contracts /\ c.contract.risk \in RiskLevels
           /\ c.action.amount \in Int \cup {None}
           /\ Len(c.policies) \in Nat /\ DOMAIN c.policies = 1..Len(c.policies)
           /\ c.policies \in PolicyLists
<1>1. c.policies \in Seq({c.policies[i] : i \in DOMAIN c.policies})
    BY PolicyListsAssumption DEF Calls
<1>2. Len(c.policies) \in Nat /\ DOMAIN c.policies = 1..Len(c.policies)
    BY <1>1
<1> QED BY <1>2, ContractsAssumption, ActionsAssumption DEF Calls, Bound

\* A built-in policy answers with a plain decision.
LEMMA DecidesTyped ==
    ASSUME NEW type \in {"allow", "deny", "require_approval"}, NEW risk \in RiskLevels
    PROVE  Decides(type, risk) \in Answer /\ Decides(type, risk).kind = "decision"
             /\ Decides(type, risk).decision.type = type
BY DEF Decides, Answer, AnswerKinds, _decision, PolicyDecisions, Decision, WellFormed, DecisionTypes

\* The answers of a policy are answers.
LEMMA AnswersTyped ==
    ASSUME NEW c \in Calls, c # None, Bound(c), NEW i \in DOMAIN c.policies
    PROVE  AnswersOf(c.policies[i], c) \subseteq Answer
<1>1. PICK policy : policy = c.policies[i]
    OBVIOUS
<1>2. PICK risk \in RiskLevels : risk = c.contract.risk
    BY CallTyped
<1>3. \A type \in {"allow", "deny", "require_approval"} : Decides(type, risk) \in Answer
    BY DecidesTyped
<1>4. \/ policy.kind \in {"tool_allow_deny", "required_permission"}
      \/ policy.kind = "risk_approval" /\ policy.minimum \in RiskLevels
      \/ policy.kind = "numeric_threshold" /\ Convertible(policy.threshold)
      \/ policy.kind = "host" /\ policy.answers \subseteq Answer
    BY <1>1, CallTyped, PolicyListsAssumption
<1>5. CASE policy.kind = "tool_allow_deny"
    BY <1>1, <1>2, <1>3, <1>5 DEF AnswersOf, ToolAllowDenyPolicy
<1>6. CASE policy.kind = "required_permission"
    BY <1>1, <1>2, <1>3, <1>6 DEF AnswersOf, RequiredPermissionPolicy
<1>7. CASE policy.kind = "risk_approval"
    BY <1>1, <1>2, <1>3, <1>7 DEF AnswersOf, RiskApprovalPolicy
<1>8. CASE policy.kind = "numeric_threshold"
    BY <1>1, <1>2, <1>3, <1>8 DEF AnswersOf, NumericApprovalThresholdPolicy
<1>9. CASE policy.kind = "host" /\ policy.answers \subseteq Answer
    BY <1>1, <1>9 DEF AnswersOf
<1> QED BY <1>4, <1>5, <1>6, <1>7, <1>8, <1>9

\* A denial is a decision.
LEMMA DenialTyped ==
    ASSUME NEW risk \in RiskLevels
    PROVE  /\ _decision("deny", risk, {}) \in PolicyDecisions
           /\ _decision("deny", risk, {}).type = "deny"
           /\ _decision("deny", risk, {}) # None
BY NoneIsNoCall DEF _decision, PolicyDecisions, Decision, WellFormed, DecisionTypes

-----------------------------------------------------------------------------
(***************************************************************************)
(* The invariant.                                                          *)
(***************************************************************************)

\* No call has been made.
LEMMA InitPInv == Init => PInv
BY DEF Init, PInv, TypeOK, NothingAsked, AskedInOrder, LoopEvaluates

\* A call enters the engine.
LEMMA BeginInv == ASSUME PInv, NEW c \in Calls, Begin(c) PROVE PInv'
<1>1. call' = c /\ c # None /\ consulted' = <<>> /\ outcome' = None
    BY NoneIsNoCall DEF PInv, NothingAsked, Begin
<1>2. Len(consulted') = 0 /\ DOMAIN consulted' = {} /\ consulted' \in Seq(Answer)
    BY <1>1
<1>3. Bound(c) => Len(c.policies) >= 0
    BY <1>1, CallTyped
<1> QED BY <1>1, <1>2, <1>3
        DEF PInv, TypeOK, NothingAsked, AskedInOrder, LoopEvaluates, AllDecided

\* An intent that is not bound to the contract is denied.
LEMMA RejectUnboundInv == ASSUME PInv, RejectUnbound PROVE PInv'
<1>1. /\ call \in Calls /\ call # None /\ ~Bound(call) /\ UNCHANGED <<call, consulted>>
      /\ consulted = <<>>
      /\ outcome' = _decision("deny", IF call.contract = None THEN CRITICAL ELSE call.contract.risk, {})
    BY DEF RejectUnbound, PInv, TypeOK, NothingAsked
<1>2. (IF call.contract = None THEN CRITICAL ELSE call.contract.risk) \in RiskLevels
    BY <1>1, ContractsAssumption DEF Calls, RiskLevels, LOW, CRITICAL
<1>3. outcome' \in PolicyDecisions /\ outcome'.type = "deny" /\ outcome' # None
    BY <1>1, <1>2, DenialTyped
<1> QED BY <1>1, <1>3 DEF PInv, TypeOK, NothingAsked, AskedInOrder, LoopEvaluates, Bound

\* The next policy is asked.
LEMMA ConsultInv == ASSUME PInv, Consult PROVE PInv'
<1> USE DEF PInv
<1>1. /\ call \in Calls /\ call # None /\ Bound(call) /\ call' = call /\ outcome = None
      /\ consulted \in Seq(Answer) /\ Len(consulted) < Len(call.policies)
      /\ AllDecided
    BY DEF Consult, TypeOK, LoopEvaluates
<1>2. PICK n : n = Len(consulted) + 1
    OBVIOUS
<1>3. /\ n \in Nat /\ Len(consulted) \in Nat /\ n \in DOMAIN call.policies
      /\ n <= Len(call.policies)
    BY <1>1, <1>2, CallTyped
<1>4. PICK answer \in AnswersOf(call.policies[n], call) :
          /\ consulted' = Append(consulted, answer)
          /\ outcome' = IF answer.kind = "decision" THEN None
                        ELSE _decision("deny", call.contract.risk, {})
    BY <1>2 DEF Consult
<1>5. answer \in Answer
    BY <1>1, <1>3, AnswersTyped
<1>6. /\ consulted' \in Seq(Answer) /\ Len(consulted') = n /\ DOMAIN consulted' = 1..n
      /\ \A i \in DOMAIN consulted : consulted'[i] = consulted[i]
      /\ consulted'[n] = answer
      /\ \A i \in DOMAIN consulted' : i \in DOMAIN consulted \/ i = n
    <2>1. /\ Append(consulted, answer) \in Seq(Answer)
          /\ Len(Append(consulted, answer)) = Len(consulted) + 1
          /\ \A i \in 1..Len(consulted) : Append(consulted, answer)[i] = consulted[i]
          /\ Append(consulted, answer)[Len(consulted) + 1] = answer
        BY <1>1, <1>5, AppendProperties
    <2>2. DOMAIN consulted = 1..Len(consulted) /\ DOMAIN Append(consulted, answer) = 1..n
        BY <1>1, <1>2, <2>1
    <2>3. \A i \in 1..n : i \in 1..Len(consulted) \/ i = n
        BY <1>2, <1>3
    <2> QED BY <1>2, <1>4, <2>1, <2>2, <2>3
<1>7. outcome' = None \/ outcome' \in PolicyDecisions
    BY <1>1, <1>4, CallTyped, DenialTyped
<1>8. TypeOK'
    BY <1>1, <1>6, <1>7 DEF TypeOK
<1>9. NothingAsked'
    BY <1>1 DEF NothingAsked
<1>10. AskedInOrder'
    BY <1>1, <1>3, <1>4, <1>6 DEF AskedInOrder
<1>11. LoopEvaluates'
    <2>1. CASE answer.kind = "decision"
        <3>1. outcome' = None /\ AllDecided'
            BY <1>1, <1>4, <1>6, <2>1 DEF AllDecided
        <3> QED BY <3>1 DEF LoopEvaluates
    <2>2. CASE answer.kind # "decision"
        <3>1. outcome' = _decision("deny", call.contract.risk, {}) /\ outcome' # None
            BY <1>1, <1>4, <2>2, CallTyped, DenialTyped
        <3>2. n \in DOMAIN consulted' /\ consulted'[n].kind # "decision"
            BY <1>2, <1>3, <1>6, <2>2
        <3>3. ~AllDecided'
            BY <3>2 DEF AllDecided
        <3>4. outcome' = Evaluate(call.contract.risk, consulted')
            BY <3>1, <3>2 DEF Evaluate
        <3> QED BY <1>1, <3>1, <3>3, <3>4 DEF LoopEvaluates
    <2> QED BY <2>1, <2>2
<1> QED BY <1>8, <1>9, <1>10, <1>11

\* The answers collected so far are composed.
LEMMA ComposeInv == ASSUME PInv, Compose PROVE PInv'
<1> USE DEF PInv
<1>1. /\ call \in Calls /\ call # None /\ Bound(call) /\ outcome = None
      /\ UNCHANGED <<call, consulted>>
      /\ consulted \in Seq(Answer) /\ Len(consulted) = Len(call.policies)
      /\ AllDecided /\ outcome' = _compose(call.contract.risk, consulted)
    BY DEF Compose, TypeOK, LoopEvaluates
<1>2. outcome' = Evaluate(call.contract.risk, consulted)
    BY <1>1 DEF Evaluate, AllDecided
<1>3. outcome' \in PolicyDecisions \cup {ValidationError}
    BY <1>1, <1>2, CallTyped, EvaluationKeepsRiskFloor
<1>4. outcome' # None
    BY <1>3, NoneIsNoCall DEF PolicyDecisions
<1>5. TypeOK'
    BY <1>1, <1>3 DEF TypeOK
<1>6. LoopEvaluates'
    BY <1>1, <1>2, <1>4 DEF LoopEvaluates
<1>7. NothingAsked' /\ AskedInOrder'
    BY <1>1 DEF NothingAsked, AskedInOrder
<1> QED BY <1>5, <1>6, <1>7

\* The decision is returned.
LEMMA ReturnInv == ASSUME PInv, Return PROVE PInv'
BY DEF Return, PInv, TypeOK, NothingAsked, AskedInOrder, LoopEvaluates

(***************************************************************************)
(* The inductive invariant: the loop of evaluate(), early returns and all, *)
(* computes the function Evaluate() of the answers it has seen.            *)
(***************************************************************************)
THEOREM LoopComputesEvaluate == Spec => []PInv
<1>1. PInv /\ [Next]_vars => PInv'
    <2> SUFFICES ASSUME PInv, [Next]_vars PROVE PInv'
        OBVIOUS
    <2>1. CASE UNCHANGED vars
        BY <2>1 DEF vars, PInv, TypeOK, NothingAsked, AskedInOrder, LoopEvaluates, AllDecided
    <2>2. CASE Next
        BY <2>2, BeginInv, RejectUnboundInv, ConsultInv, ComposeInv, ReturnInv DEF Next
    <2> QED BY <2>1, <2>2
<1> QED BY InitPInv, <1>1, PTL DEF Spec

-----------------------------------------------------------------------------
\* The types of an evaluation, its arguments and its outcome.
THEOREM TypeCorrect == Spec => []TypeOK
BY LoopComputesEvaluate, PTL DEF PInv

\* A decision that lets an action through is the composition of all answers.
LEMMA PermittedByAll ==
    ASSUME PInv, outcome # None, Permits(outcome)
    PROVE  /\ call \in Calls /\ call # None /\ Bound(call)
           /\ outcome = Evaluate(call.contract.risk, consulted)
           /\ outcome = _compose(call.contract.risk, consulted)
           /\ AllDecided /\ Len(consulted) = Len(call.policies)
           /\ Chosen(consulted, "deny") = {}
           /\ outcome.type # "require_approval" => Chosen(consulted, "require_approval") = {}
<1> USE DEF PInv
<1>1. outcome.type # "deny" /\ outcome # ValidationError
    BY DEF Permits, ValidationError
<1>2. call \in Calls /\ call # None /\ Bound(call)
    BY <1>1 DEF TypeOK, NothingAsked
<1>3. outcome = Evaluate(call.contract.risk, consulted)
    BY <1>2 DEF LoopEvaluates
<1>4. AllDecided
    BY <1>1, <1>3 DEF AllDecided, Evaluate, _decision
<1>5. Len(consulted) = Len(call.policies)
    BY <1>2, <1>4 DEF LoopEvaluates
<1>6. outcome = _compose(call.contract.risk, consulted)
    BY <1>3, <1>4 DEF AllDecided, Evaluate
<1>7. /\ Chosen(consulted, "deny") = {}
      /\ outcome.type # "require_approval" => Chosen(consulted, "require_approval") = {}
    <2> HIDE DEF ValidationError
    <2> QED BY <1>1, <1>6, ComposedType
<1> QED BY <1>2, <1>3, <1>4, <1>5, <1>6, <1>7

(***************************************************************************)
(* Fail closed (INV-POL-01, INV-POL-02): no action passes without its      *)
(* contract, or unless every policy was asked and decided, none denying.   *)
(***************************************************************************)
THEOREM EngineFailsClosed == Spec => []FailClosed
<1>1. PInv => FailClosed
    BY PermittedByAll DEF FailClosed, AllDecided, Chosen
<1> QED BY <1>1, LoopComputesEvaluate, PTL

(***************************************************************************)
(* No policy lowers the risk of a contract, and high risk needs approval   *)
(* (INV-POL-03, INV-POL-04).                                               *)
(***************************************************************************)
THEOREM EngineKeepsRiskFloor == Spec => []RiskFloor
<1>1. PInv => RiskFloor
    <2> SUFFICES ASSUME PInv, outcome # None, Permits(outcome)
                 PROVE  /\ outcome.risk >= call.contract.risk
                        /\ outcome.risk >= HIGH => outcome.type = "require_approval"
        BY DEF RiskFloor
    <2>1. call \in Calls /\ call # None /\ Bound(call)
            /\ outcome = Evaluate(call.contract.risk, consulted)
        BY PermittedByAll
    <2>2. consulted \in Seq(Answer) /\ call.contract.risk \in RiskLevels
        BY <2>1, CallTyped DEF PInv, TypeOK
    <2>3. outcome # ValidationError /\ outcome.type # "deny"
        BY DEF Permits, ValidationError
    <2> QED BY <2>1, <2>2, <2>3, EvaluationKeepsRiskFloor
<1> QED BY <1>1, LoopComputesEvaluate, PTL

(***************************************************************************)
(* The order in which an engine's policies are configured never changes    *)
(* its decision.                                                           *)
(***************************************************************************)
THEOREM OrderDoesNotMatter == Spec => []OrderIrrelevant
<1>1. PInv => OrderIrrelevant
    <2> SUFFICES ASSUME PInv, outcome # None, Bound(call),
                        NEW f \in [DOMAIN consulted -> DOMAIN consulted],
                        \A i, j \in DOMAIN consulted : f[i] = f[j] => i = j
                 PROVE  Evaluate(call.contract.risk, Rearranged(consulted, f)) = outcome
        BY DEF OrderIrrelevant
    <2>1. call # None /\ call \in Calls /\ consulted \in Seq(Answer)
        BY DEF PInv, NothingAsked, TypeOK
    <2>2. PICK risk \in RiskLevels : risk = call.contract.risk
        BY <2>1, CallTyped
    <2>3. outcome = Evaluate(risk, consulted)
        BY <2>1, <2>2 DEF PInv, LoopEvaluates
    <2>4. PICK other : other = [i \in DOMAIN consulted |-> consulted[f[i]]]
        OBVIOUS
    <2>5. Evaluate(risk, other) = Evaluate(risk, consulted)
        BY <2>1, <2>4, EvaluationIgnoresOrder
    <2> QED BY <2>2, <2>3, <2>4, <2>5 DEF Rearranged
<1> QED BY <1>1, LoopComputesEvaluate, PTL

(***************************************************************************)
(* An engine with more policies is at least as strict.                     *)
(***************************************************************************)
THEOREM MorePoliciesAreStricter == Spec => []MorePoliciesNeverWeaken
<1>1. PInv => MorePoliciesNeverWeaken
    <2> SUFFICES ASSUME PInv, outcome # None, Bound(call), outcome # ValidationError,
                        NEW n \in 0..Len(consulted),
                        Evaluate(call.contract.risk, SubSeq(consulted, 1, n)) # ValidationError
                 PROVE  Strictness(Evaluate(call.contract.risk, SubSeq(consulted, 1, n)))
                            <= Strictness(outcome)
        BY DEF MorePoliciesNeverWeaken
    <2>1. call # None /\ call \in Calls /\ consulted \in Seq(Answer)
        BY DEF PInv, NothingAsked, TypeOK
    <2>2. PICK risk \in RiskLevels : risk = call.contract.risk
        BY <2>1, CallTyped
    <2>3. outcome = Evaluate(risk, consulted)
        BY <2>1, <2>2 DEF PInv, LoopEvaluates
    <2>4. PICK fewer : fewer = SubSeq(consulted, 1, n)
        OBVIOUS
    <2>5. /\ fewer \in Seq(Answer)
          /\ DOMAIN fewer \subseteq DOMAIN consulted
          /\ \A i \in DOMAIN fewer : fewer[i] = consulted[i]
        <3>1. n \in Nat /\ n <= Len(consulted) /\ n \in Int /\ 1 \in Int
            BY <2>1
        <3>2. \A i \in 1..n : i \in 1..Len(consulted) /\ consulted[i] \in Answer
            BY <2>1, <3>1
        <3>3. /\ SubSeq(consulted, 1, n) \in Seq(Answer)
              /\ Len(SubSeq(consulted, 1, n)) = IF 1 <= n THEN n - 1 + 1 ELSE 0
              /\ \A i \in 1..(n - 1 + 1) : SubSeq(consulted, 1, n)[i] = consulted[1 + i - 1]
            BY <2>1, <3>1, <3>2, SubSeqProperties
        <3>4. n - 1 + 1 = n /\ \A i \in 1..n : 1 + i - 1 = i
            BY <3>1
        <3>5. Len(fewer) = n /\ \A i \in 1..n : fewer[i] = consulted[i]
            BY <2>4, <3>1, <3>3, <3>4
        <3>6. DOMAIN fewer = 1..n
            BY <2>4, <3>3, <3>5
        <3> QED BY <2>1, <2>4, <3>2, <3>3, <3>5, <3>6
    <2>6. Evaluate(risk, consulted).type \in AtLeastAsStrict(Evaluate(risk, fewer).type)
        BY <2>1, <2>2, <2>3, <2>4, <2>5, MoreAnswersAreStricter
    <2>7. PICK d : d = Evaluate(risk, fewer)
        OBVIOUS
    <2>8. d.type \in DecisionTypes
        BY <2>2, <2>4, <2>5, <2>7, EvaluationKeepsRiskFloor DEF PolicyDecisions, Decision
    <2>9. Strictness(d) <= Strictness(outcome)
        BY <2>3, <2>6, <2>7, <2>8 DEF Strictness, AtLeastAsStrict, DecisionTypes
    <2> QED BY <2>2, <2>4, <2>7, <2>9
<1> QED BY <1>1, LoopComputesEvaluate, PTL

(***************************************************************************)
(* Rounding is off by at most half the distance between two floats, which  *)
(* is at most one part in Significand of the number.                       *)
(***************************************************************************)
LEMMA RoundingError ==
    ASSUME NEW n \in Nat, \E s \in Spacings : InBinade(n, s)
    PROVE  /\ RoundHalfEven(n) \in Int
           /\ (RoundHalfEven(n) - n) * Significand <= n
           /\ (n - RoundHalfEven(n)) * Significand <= n
<1>1. PICK s \in Spacings :
          s = (CHOOSE z \in Spacings : InBinade(n, z)) /\ InBinade(n, s)
    OBVIOUS
<1>2. s \in Nat /\ s > 0 /\ Significand \in Nat /\ Significand > 0
    BY FloatFormat
<1>3. PICK over \in Nat : over = n % s /\ over < s
    BY <1>2
<1>4. PICK below \in Int : below = n - over
    BY <1>3
<1>5. PICK r : r = RoundHalfEven(n)
    OBVIOUS
<1>6. \/ r = below /\ 2 * over <= s
      \/ r = below + s /\ 2 * over >= s
    <2>1. PICK even \in BOOLEAN : even = ((below \div s) % 2 = 0)
        OBVIOUS
    <2>2. r = IF 2 * over < s \/ (2 * over = s /\ even) THEN below ELSE below + s
        BY ONLY <1>1, <1>3, <1>4, <1>5, <2>1, Zenon DEF RoundHalfEven
    <2> QED BY ONLY <1>2, <1>3, <2>2
<1>7. r \in Int /\ 2 * (r - n) <= s /\ 2 * (n - r) <= s /\ (s = 1 => r = n)
    BY <1>2, <1>3, <1>4, <1>6
<1>8. CASE s = 1
    <2>1. r - n = 0 /\ n - r = 0
        BY <1>7, <1>8
    <2>2. (r - n) * Significand = 0 /\ (n - r) * Significand = 0
        BY <1>2, <2>1
    <2> QED BY <1>5, <1>7, <2>2
<1>9. CASE Significand * s <= 2 * n
    <2>1. \A d \in Int : 2 * d <= s => d * Significand <= n
        <3> SUFFICES ASSUME NEW d \in Int, 2 * d <= s PROVE d * Significand <= n
            OBVIOUS
        <3>1. (2 * d) * Significand <= s * Significand
            BY <1>2
        <3>2. (2 * d) * Significand = 2 * (d * Significand) /\ d * Significand \in Int
            BY <1>2
        <3> QED BY <1>2, <1>9, <3>1, <3>2
    <2> QED BY <1>5, <1>7, <2>1
<1> QED BY <1>1, <1>8, <1>9 DEF InBinade

\* What does not exceed the converted threshold is within the given one.
LEMMA ConvertedWithin ==
    ASSUME NEW threshold, Convertible(threshold), NEW amount \in Int,
           ~Exceeds(amount, float(threshold))
    PROVE  Within(amount, threshold)
<1>1. CASE threshold \in NonFinite
    BY <1>1 DEF float, Exceeds, Within, NonFinite
<1>2. CASE threshold \notin NonFinite
    <2>1. threshold \in Int /\ \E s \in Spacings : InBinade(Abs(threshold), s)
        BY <1>2 DEF Convertible
    <2>2. PICK n \in Nat : n = Abs(threshold)
        BY <2>1 DEF Abs
    <2>3. PICK r \in Int : /\ r = RoundHalfEven(n)
                           /\ (r - n) * Significand <= n
                           /\ (n - r) * Significand <= n
        BY <2>1, <2>2, RoundingError
    <2>4. PICK x \in Int :
              x = float(threshold) /\ x = IF threshold < 0 THEN 0 - r ELSE r
        BY <1>2, <2>1, <2>2, <2>3 DEF float, Abs
    <2>5. amount <= x
        BY <2>4, NonFiniteAssumption DEF Exceeds
    <2>6. x - threshold = IF threshold < 0 THEN n - r ELSE r - n
        BY <2>1, <2>2, <2>4 DEF Abs
    <2>7. (x - threshold) * Significand <= n
        BY <2>3, <2>6
    <2>8. amount - threshold <= x - threshold
        BY <2>1, <2>5
    <2>9. (amount - threshold) * Significand <= (x - threshold) * Significand
        BY <2>1, <2>8, FloatFormat
    <2>10. (amount - threshold) * Significand \in Int /\ (x - threshold) * Significand \in Int
        BY <2>1, FloatFormat
    <2>11. (amount - threshold) * Significand <= n
        BY <2>7, <2>9, <2>10
    <2> QED BY <1>2, <2>2, <2>11 DEF Within, NonFinite
<1> QED BY <1>1, <1>2

\* A built-in policy that allows an action is satisfied by it.
LEMMA BuiltInsMeanIt ==
    ASSUME NEW c \in Calls, c # None, Bound(c), NEW i \in DOMAIN c.policies,
           NEW answer \in AnswersOf(c.policies[i], c),
           answer.decision.type \notin {"deny", "require_approval"}
    PROVE  Satisfies(c, c.policies[i])
<1>1. PICK policy : policy = c.policies[i]
    OBVIOUS
<1>2. PICK risk \in RiskLevels : risk = c.contract.risk
    BY CallTyped
<1>3. \A type \in {"allow", "deny", "require_approval"} :
          Decides(type, risk).decision.type = type
    BY DecidesTyped
<1>4. \/ policy.kind \in {"tool_allow_deny", "required_permission"}
      \/ policy.kind = "risk_approval" /\ policy.minimum \in RiskLevels
      \/ policy.kind = "numeric_threshold" /\ Convertible(policy.threshold)
      \/ policy.kind = "host"
    BY <1>1, CallTyped, PolicyListsAssumption
<1>5. CASE policy.kind = "tool_allow_deny"
    BY <1>1, <1>2, <1>3, <1>5 DEF AnswersOf, ToolAllowDenyPolicy, Satisfies
<1>6. CASE policy.kind = "required_permission"
    BY <1>1, <1>2, <1>3, <1>6 DEF AnswersOf, RequiredPermissionPolicy, Satisfies
<1>7. CASE policy.kind = "risk_approval" /\ policy.minimum \in RiskLevels
    BY <1>1, <1>2, <1>3, <1>7
       DEF AnswersOf, RiskApprovalPolicy, Satisfies, _risk_at_least, RiskLevels, LOW, CRITICAL
<1>8. CASE policy.kind = "numeric_threshold" /\ Convertible(policy.threshold)
    <2>1. PICK threshold : threshold = policy.threshold /\ Convertible(threshold)
        BY <1>8
    <2>2. PICK amount : amount = c.action.amount /\ amount \in Int \cup {None}
        BY CallTyped
    <2>3. CASE policy.tools # None /\ c.action.tool \notin policy.tools
        BY <1>1, <1>8, <2>3 DEF Satisfies
    <2>4. CASE ~(policy.tools # None /\ c.action.tool \notin policy.tools)
        <3>1. answer = IF amount = None THEN Decides("deny", risk)
                       ELSE IF Exceeds(amount, float(threshold))
                            THEN Decides("require_approval", risk)
                            ELSE Decides("allow", risk)
            BY <1>1, <1>2, <1>8, <2>1, <2>2, <2>4 DEF AnswersOf, NumericApprovalThresholdPolicy
        <3>2. amount # None /\ ~Exceeds(amount, float(threshold))
            BY <1>3, <3>1
        <3>3. Within(amount, threshold)
            BY <2>1, <2>2, <3>2, ConvertedWithin
        <3> QED BY <1>1, <1>8, <2>1, <2>2, <3>2, <3>3 DEF Satisfies
    <2> QED BY <2>3, <2>4
<1>9. CASE policy.kind = "host"
    BY <1>1, <1>9 DEF Satisfies
<1> QED BY <1>4, <1>5, <1>6, <1>7, <1>8, <1>9

(***************************************************************************)
(* What an engine allows without approval satisfies every built-in policy  *)
(* in it, whatever the other policies answer.                              *)
(***************************************************************************)
THEOREM BuiltInsAreEnforced == Spec => []BuiltInsEnforced
<1>1. PInv => BuiltInsEnforced
    <2> SUFFICES ASSUME PInv, outcome # None, outcome.type \in {"allow", "allow_with_constraints"},
                        NEW i \in DOMAIN call.policies
                 PROVE  Satisfies(call, call.policies[i])
        BY DEF BuiltInsEnforced
    <2>1. /\ call \in Calls /\ call # None /\ Bound(call)
          /\ Len(consulted) = Len(call.policies)
          /\ Chosen(consulted, "deny") = {} /\ Chosen(consulted, "require_approval") = {}
        BY PermittedByAll DEF Permits
    <2>2. i \in DOMAIN consulted
        BY <2>1, CallTyped DEF PInv, TypeOK
    <2>3. consulted[i].decision.type \notin {"deny", "require_approval"}
        BY <2>1, <2>2 DEF Chosen
    <2>4. consulted[i] \in AnswersOf(call.policies[i], call)
        BY <2>1, <2>2 DEF PInv, AskedInOrder
    <2> QED BY <2>1, <2>3, <2>4, BuiltInsMeanIt
<1> QED BY <1>1, LoopComputesEvaluate, PTL
=============================================================================
