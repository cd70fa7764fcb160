CONSTANTS
    Refund = Refund
    Email = Email
    Permission = Permission
    ConstraintA = ConstraintA
    ConstraintB = ConstraintB
    None = None
    Significand = 4
    Spacings = {1, 2, 4}
    NaN = NaN
    Infinity = Infinity
    MinusInfinity = MinusInfinity
    Constraints <- MCConstraints
    Actions <- MCActions
    Contracts <- MCContracts
    Contexts <- MCContexts
    PolicyLists <- MCPolicyLists
SPECIFICATION Spec
INVARIANT TypeOK
INVARIANT FailClosed
INVARIANT RiskFloor
INVARIANT OrderIrrelevant
INVARIANT MorePoliciesNeverWeaken
INVARIANT BuiltInsEnforced
