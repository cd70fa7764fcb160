CONSTANTS
    Refund = Refund
    Email = Email
    Key = Key
    Arg = Arg
    OtherArg = OtherArg
    BadArg = BadArg
    ConstraintA = ConstraintA
    None = None
    Calls = {c1, c2}
    Names <- MCNames
    Keys <- MCKeys
    Constraints <- MCConstraints
    Contracts <- MCContracts
    Intents <- MCIntents
    PolicyAnswers <- MCPolicyAnswers
    Checker = "host"
    ApprovedIds = {}
SPECIFICATION Spec
INVARIANT TypeOK
INVARIANT AtMostOneInvocationPerKey
INVARIANT NoUngatedEffect
INVARIANT ReplayIsFaithful
INVARIANT TruthfulResult
PROPERTY EffectUnderOwnClaim
SYMMETRY Symmetry
