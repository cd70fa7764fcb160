--------------------------- MODULE BuiltInPolicies ---------------------------
(***************************************************************************)
(* The built-in policies of src/agentactum/policies/engine.py:107-283.     *)
(* `tool' is the action's tool_name and `risk' the risk level of its       *)
(* contract.  None stands for an unset set of tools and for an argument    *)
(* that _is_number() rejects; `permissions' is None when the trusted       *)
(* context holds no list of strings.                                       *)
(*                                                                         *)
(* A finite number, integer or floating point, is an integer count of the  *)
(* smallest positive float, so comparisons are exact, as Python's are.  In *)
(* that unit CPython's floats have Significand = 2^53 and Spacings = the   *)
(* powers 2^0 to 2^2045; below Significand * s the floats are no further   *)
(* than s apart.                                                           *)
(***************************************************************************)
EXTENDS Policies

CONSTANTS
    Significand,                    \* how many significands a float can have
    Spacings,                       \* distances between neighbouring floats
    NaN, Infinity, MinusInfinity    \* the floats that are not finite

NonFinite == {NaN, Infinity, MinusInfinity}

ASSUME FloatFormat ==
    /\ Significand \in Nat \ {0}
    /\ Spacings \subseteq Nat \ {0}

ASSUME NonFiniteAssumption ==
    /\ \A x \in NonFinite : x \notin Int
    /\ MinusInfinity \notin {NaN, Infinity}

Abs(n) == IF n < 0 THEN 0 - n ELSE n

\* Around n, floats are s apart.
InBinade(n, s) == n < Significand * s /\ (s = 1 \/ Significand * s <= 2 * n)

\* The float nearest to the natural number n, of two such the even one.
RoundHalfEven(n) ==
    LET s     == CHOOSE s \in Spacings : InBinade(n, s)
        over  == n % s
        below == n - over
    IN  IF 2 * over < s \/ (2 * over = s /\ (below \div s) % 2 = 0) THEN below ELSE below + s

\* float(x)
float(x) ==
    IF x \in NonFinite THEN x
    ELSE IF x < 0 THEN 0 - RoundHalfEven(0 - x)
    ELSE RoundHalfEven(x)

\* float(x) does not raise an OverflowError.
Convertible(x) ==
    \/ x \in NonFinite
    \/ /\ x \in Int
       /\ \E s \in Spacings : InBinade(Abs(x), s)
       /\ \E s \in Spacings : Abs(float(x)) < Significand * s

\* value > threshold, for a finite value; every comparison with NaN is false.
Exceeds(value, threshold) ==
    \/ threshold = MinusInfinity
    \/ threshold \notin NonFinite /\ value > threshold

Decides(type, risk) == [kind |-> "decision", decision |-> _decision(type, risk, {})]

ToolAllowDenyPolicy(policy, tool, risk) ==
    IF tool \in policy.denied \/ (policy.allowed # None /\ tool \notin policy.allowed)
    THEN Decides("deny", risk)
    ELSE Decides("allow", risk)

RequiredPermissionPolicy(policy, tool, risk, permissions) ==
    LET required == IF tool \in DOMAIN policy.required THEN policy.required[tool] ELSE {}
    IN  IF required # {} /\ (permissions = None \/ ~(required \subseteq permissions))
        THEN Decides("deny", risk)
        ELSE Decides("allow", risk)

RiskApprovalPolicy(policy, risk) ==
    IF _risk_at_least(risk, policy.minimum)
    THEN Decides("require_approval", risk)
    ELSE Decides("allow", risk)

\* @mutant of NumericApprovalThresholdPolicy: the threshold is rounded up to
\* a multiple of four units before it is compared.
ThresholdRoundedUp(policy, tool, risk, amount) ==
    LET threshold == IF policy.threshold \in NonFinite THEN policy.threshold
                     ELSE 4 * ((policy.threshold + 3) \div 4)
    IN  IF policy.tools # None /\ tool \notin policy.tools THEN Decides("allow", risk)
        ELSE IF amount = None THEN Decides("deny", risk)
        ELSE IF Exceeds(amount, threshold) THEN Decides("require_approval", risk)
        ELSE Decides("allow", risk)

\* The constructor keeps float(threshold), which evaluate() compares with.
NumericApprovalThresholdPolicy(policy, tool, risk, amount) ==
    IF policy.tools # None /\ tool \notin policy.tools THEN Decides("allow", risk)
    ELSE IF amount = None THEN Decides("deny", risk)
    ELSE IF Exceeds(amount, float(policy.threshold)) THEN Decides("require_approval", risk)
    ELSE Decides("allow", risk)
=============================================================================
