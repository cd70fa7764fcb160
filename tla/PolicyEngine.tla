---------------------------- MODULE PolicyEngine ----------------------------
(***************************************************************************)
(* PolicyEngine.evaluate (src/agentactum/policies/engine.py:43-104) as the *)
(* loop it is: the bindings are checked, the configured policies are asked *)
(* one after the other, an answer that is not a decision for this action   *)
(* ends the loop with a denial, and the decisions are composed.            *)
(***************************************************************************)
EXTENDS BuiltInPolicies

CONSTANTS
    Actions,        \* requested actions: [tool, version, amount]
    Contracts,      \* tool contracts: [tool, version, risk]
    Contexts,       \* permissions in the trusted context: sets of names, or None
    PolicyLists     \* the tuples of policies an engine may be built with

ASSUME ContractsAssumption == \A contract \in Contracts : contract.risk \in RiskLevels

ASSUME ActionsAssumption == \A action \in Actions : action.amount \in Int \cup {None}

ASSUME PolicyListsAssumption ==
    \A policies \in PolicyLists :
        /\ policies \in Seq({policies[i] : i \in DOMAIN policies})
        /\ \A i \in DOMAIN policies :
              LET policy == policies[i]
              IN  \/ policy.kind \in {"tool_allow_deny", "required_permission"}
                  \/ policy.kind = "risk_approval" /\ policy.minimum \in RiskLevels
                  \/ policy.kind = "numeric_threshold" /\ Convertible(policy.threshold)
                  \/ policy.kind = "host" /\ policy.answers \subseteq Answer

VARIABLES
    call,           \* the arguments of evaluate() and the engine's policies, or None
    consulted,      \* the answers of the policies asked so far
    outcome         \* the decision returned, ValidationError, or None

vars == <<call, consulted, outcome>>

Calls == [action : Actions, contract : Contracts \cup {None},
          context : Contexts, policies : PolicyLists]

ASSUME NoneIsNoCall == None \notin Calls /\ None \notin Decision /\ None # ValidationError

TypeOK ==
    /\ call \in Calls \cup {None}
    /\ consulted \in Seq(Answer)
    /\ outcome \in PolicyDecisions \cup {ValidationError, None}

Init ==
    /\ call = None
    /\ consulted = <<>>
    /\ outcome = None

_action_matches_contract(action, contract) ==
    /\ action.tool = contract.tool
    /\ action.version = contract.version

Bound(c) == c.contract # None /\ _action_matches_contract(c.action, c.contract)

Begin(c) ==
    /\ call = None
    /\ call' = c
    /\ UNCHANGED <<consulted, outcome>>

\* A contract that is missing or that the action does not name.
RejectUnbound ==
    /\ call # None
    /\ outcome = None
    /\ ~Bound(call)
    /\ outcome' = _decision("deny",
                            IF call.contract = None THEN CRITICAL ELSE call.contract.risk, {})
    /\ UNCHANGED <<call, consulted>>

\* The answers a policy may give; a host's policy is any of a set of answers.
AnswersOf(policy, c) ==
    LET tool == c.action.tool
        risk == c.contract.risk
    IN  CASE policy.kind = "tool_allow_deny" -> {ToolAllowDenyPolicy(policy, tool, risk)}
          [] policy.kind = "required_permission" ->
                {RequiredPermissionPolicy(policy, tool, risk, c.context)}
          [] policy.kind = "risk_approval" -> {RiskApprovalPolicy(policy, risk)}
          [] policy.kind = "numeric_threshold" ->
                {NumericApprovalThresholdPolicy(policy, tool, risk, c.action.amount)}
          [] policy.kind = "host" -> policy.answers

\* @mutant of Consult: a policy that raises is skipped.
ConsultSkipsRaising ==
    /\ call # None
    /\ outcome = None
    /\ Bound(call)
    /\ Len(consulted) < Len(call.policies)
    /\ \E answer \in AnswersOf(call.policies[Len(consulted) + 1], call) :
          /\ consulted' = Append(consulted, answer)
          /\ outcome' = IF answer.kind \in {"decision", "raises"} THEN None
                        ELSE _decision("deny", call.contract.risk, {})
    /\ UNCHANGED call

\* One iteration of the loop.
Consult ==
    /\ call # None
    /\ outcome = None
    /\ Bound(call)
    /\ Len(consulted) < Len(call.policies)
    /\ \E answer \in AnswersOf(call.policies[Len(consulted) + 1], call) :
          /\ consulted' = Append(consulted, answer)
          /\ outcome' = IF answer.kind = "decision" THEN None
                        ELSE _decision("deny", call.contract.risk, {})
    /\ UNCHANGED call

Compose ==
    /\ call # None
    /\ outcome = None
    /\ Bound(call)
    /\ Len(consulted) = Len(call.policies)
    /\ outcome' = _compose(call.contract.risk, consulted)
    /\ UNCHANGED <<call, consulted>>

Return ==
    /\ outcome # None
    /\ call' = None
    /\ consulted' = <<>>
    /\ outcome' = None

Next == (\E c \in Calls : Begin(c)) \/ RejectUnbound \/ Consult \/ Compose \/ Return

Spec == Init /\ [][Next]_vars

-----------------------------------------------------------------------------
Permits(d) == d.type \in {"allow", "allow_with_constraints", "require_approval"}

(***************************************************************************)
(* Fail closed (INV-POL-01, INV-POL-02): an action is only let through,    *)
(* approval pending or not, when its contract is known and matches, every  *)
(* policy was asked, each gave a decision for it, and none denied.         *)
(***************************************************************************)
FailClosed ==
    outcome # None /\ Permits(outcome) =>
        /\ Bound(call)
        /\ Len(consulted) = Len(call.policies)
        /\ \A i \in DOMAIN consulted :
              consulted[i].kind = "decision" /\ consulted[i].decision.type # "deny"

(***************************************************************************)
(* Risk cannot be lowered and high risk needs approval (INV-POL-03,        *)
(* INV-POL-04), whatever the policies answer (engine.py:315-352).          *)
(***************************************************************************)
RiskFloor ==
    outcome # None /\ Permits(outcome) =>
        /\ outcome.risk >= call.contract.risk
        /\ outcome.risk >= HIGH => outcome.type = "require_approval"

(***************************************************************************)
(* The order in which policies are configured does not matter: the answers *)
(* in any other order yield the same outcome, early returns included.  The *)
(* order of the constraints and the wording of the reason, which do follow *)
(* the policies (engine.py:318-339), are not part of the outcome here.     *)
(***************************************************************************)
Rearranged(answers, f) == [i \in DOMAIN answers |-> answers[f[i]]]

OrderIrrelevant ==
    outcome # None /\ Bound(call) =>
        \A f \in [DOMAIN consulted -> DOMAIN consulted] :
            (\A i, j \in DOMAIN consulted : f[i] = f[j] => i = j) =>
                Evaluate(call.contract.risk, Rearranged(consulted, f)) = outcome

(***************************************************************************)
(* One more policy never makes an engine more permissive: what the first   *)
(* policies alone would decide is at most as strict as the outcome.  A     *)
(* composition that raises is no decision and is left out of the order.    *)
(***************************************************************************)
Strictness(d) ==
    CASE d.type = "allow" -> 0
      [] d.type = "allow_with_constraints" -> 1
      [] d.type = "require_approval" -> 2
      [] d.type = "deny" -> 3

MorePoliciesNeverWeaken ==
    outcome # None /\ Bound(call) /\ outcome # ValidationError =>
        \A n \in 0..Len(consulted) :
            LET fewer == Evaluate(call.contract.risk, SubSeq(consulted, 1, n))
            IN  fewer # ValidationError => Strictness(fewer) <= Strictness(outcome)

(***************************************************************************)
(* An action that is allowed without approval satisfies every built-in     *)
(* policy of the engine: its tool is not denied, the context holds the     *)
(* permissions, the risk is below the approval floor, and the governed     *)
(* argument is a number within the threshold the policy was made with.     *)
(* Since the constructor converts the threshold (engine.py:245), "within"  *)
(* leaves room for the rounding: at most one part in Significand of the    *)
(* threshold, hence none below Significand units.  NaN and Infinity are    *)
(* thresholds that hold nothing back.                                      *)
(***************************************************************************)
Within(amount, threshold) ==
    CASE threshold \in {NaN, Infinity} -> TRUE
      [] threshold = MinusInfinity -> FALSE
      [] OTHER -> (amount - threshold) * Significand <= Abs(threshold)

Satisfies(c, policy) ==
    LET tool == c.action.tool
    IN  CASE policy.kind = "tool_allow_deny" ->
                tool \notin policy.denied /\ (policy.allowed = None \/ tool \in policy.allowed)
          [] policy.kind = "required_permission" ->
                \A p \in UNION {policy.required[t] : t \in DOMAIN policy.required \cap {tool}} :
                    c.context # None /\ p \in c.context
          [] policy.kind = "risk_approval" -> c.contract.risk < policy.minimum
          [] policy.kind = "numeric_threshold" ->
                policy.tools = None \/ tool \in policy.tools =>
                    c.action.amount # None /\ Within(c.action.amount, policy.threshold)
          [] OTHER -> TRUE

BuiltInsEnforced ==
    outcome # None /\ outcome.type \in {"allow", "allow_with_constraints"} =>
        \A i \in DOMAIN call.policies : Satisfies(call, call.policies[i])

(***************************************************************************)
(* "A missing policy decision, policy exception, invalid decision, or      *)
(* policy-composition failure results in denial" (INV-POL-01,              *)
(* docs/security-invariants.md:71-73): evaluate() always returns.          *)
(***************************************************************************)
CompositionFailsClosed == outcome # ValidationError
=============================================================================
