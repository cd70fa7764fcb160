------------------------------ MODULE MCRuntime -----------------------------
(***************************************************************************)
(* Small instances of SingleActionRuntime: a high-risk tool that requires  *)
(* a key and a low-risk one that does not, and intents that share a key,   *)
(* change their arguments under it, name a stale contract version, break   *)
(* the input schema, or carry no key.                                      *)
(***************************************************************************)
EXTENDS SingleActionRuntime, TLC

CONSTANTS Refund, Email, Key, Arg, OtherArg, BadArg, ConstraintA

MCNames == {Refund, Email}
MCKeys == {Key}
MCConstraints == {ConstraintA}

MCContracts ==
    {[name |-> Refund, version |-> 1, risk |-> HIGH, accepts |-> {Arg, OtherArg},
      idempotency_key_required |-> TRUE],
     [name |-> Email, version |-> 1, risk |-> LOW, accepts |-> {Arg, OtherArg},
      idempotency_key_required |-> FALSE]}

Intent(id, tool, version, arguments, key) ==
    [id |-> id, tool |-> tool, version |-> version, arguments |-> arguments, key |-> key]

\* The intents that reach the claim ...
ValidIntents ==
    {Intent(1, Refund, 1, Arg, Key), Intent(2, Refund, 1, OtherArg, Key),
     Intent(3, Email, 1, Arg, Key), Intent(4, Email, 1, Arg, None)}

\* ... and the ones that a gate stops before it.
MCIntents ==
    ValidIntents \cup
    {Intent(5, Refund, 2, Arg, Key), Intent(6, Refund, 1, BadArg, Key),
     Intent(7, Refund, 1, Arg, None)}

Reply(kind, type, risk, constraints) ==
    [kind |-> kind, decision |-> _decision(type, risk, constraints)]

Constrained == Reply("decision", "allow_with_constraints", LOW, {ConstraintA})

MCPolicyAnswers ==
    {<<>>, <<Reply("decision", "allow", HIGH, {})>>,
     <<Reply("decision", "require_approval", LOW, {})>>,
     <<Reply("decision", "allow", LOW, {}), Reply("raises", "allow", LOW, {})>>,
     <<Constrained>>, <<Constrained, Constrained>>}

\* For the smaller instances: one policy answer and the intents that claim.
QuietPolicies == {<<>>}
ClaimingIntents == {i \in ValidIntents : i.key # None}

Symmetry == Permutations(Calls)
=============================================================================
