--------------------------- MODULE MCPolicyEngine ---------------------------
(***************************************************************************)
(* Small instance of PolicyEngine: two tools, one of them with two         *)
(* contract versions' worth of mismatch, and engines of up to three        *)
(* policies in every order.  Two host policies answer anything in Replies. *)
(* Floats have four significands: 0 to 3, then 4 and 6, 8 and 12.  So a    *)
(* threshold of 5 is rounded down to 4, 7 is rounded up to 8, and 9 down.  *)
(***************************************************************************)
EXTENDS PolicyEngine

CONSTANTS Refund, Email, Permission, ConstraintA, ConstraintB

MCConstraints == {ConstraintA, ConstraintB}

MCActions == [tool : {Refund, Email}, version : {1, 2}, amount : {None, 4, 8, 9}]

MCContracts ==
    {[tool |-> Refund, version |-> 1, risk |-> r] : r \in {0, 2}}
      \cup {[tool |-> Email, version |-> 1, risk |-> 1]}

MCContexts == {None, {}, {Permission}}

Reply(kind, type, risk, constraints) ==
    [kind |-> kind, decision |-> _decision(type, risk, constraints)]

Replies ==
    {Reply("decision", "allow", 0, {}), Reply("decision", "allow", 3, {}),
     Reply("decision", "deny", 1, {}), Reply("decision", "require_approval", 0, {}),
     Reply("decision", "allow_with_constraints", 0, {ConstraintA}),
     Reply("decision", "allow_with_constraints", 1, {ConstraintA, ConstraintB}),
     Reply("decision", "allow_with_constraints", 1, {ConstraintB}),
     Reply("wrong_intent", "allow", 0, {}), Reply("invalid", "allow", 0, {}),
     Reply("raises", "allow", 0, {})}

Host == [kind |-> "host", answers |-> Replies]

BuiltIns ==
    {[kind |-> "tool_allow_deny", allowed |-> {Refund}, denied |-> {}],
     [kind |-> "tool_allow_deny", allowed |-> None, denied |-> {Refund}],
     [kind |-> "required_permission", required |-> [t \in {Refund} |-> {Permission}]],
     [kind |-> "risk_approval", minimum |-> 1],
     [kind |-> "numeric_threshold", threshold |-> 5, tools |-> None],
     [kind |-> "numeric_threshold", threshold |-> 7, tools |-> {Refund}]}

Thresholds ==
    {[kind |-> "numeric_threshold", threshold |-> x, tools |-> None] :
        x \in {-7, 0, 3, 9} \cup NonFinite}

MCPolicyLists ==
    {<<>>, <<Host, Host, Host>>} \cup {<<p, q, Host>> : p, q \in BuiltIns}
      \cup {<<Host, p>> : p \in BuiltIns \cup Thresholds}
=============================================================================
