CONSTANTS
    Refund = Refund
    Email = Email
    Key = Key
    Arg = Arg
    OtherArg = OtherArg
    BadArg = BadArg
    ConstraintA = ConstraintA
    None = None
    Calls = {c1, c2}
    Names <- MCNames
    Keys <- MCKeys
    Constraints <- MCConstraints
    Contracts <- MCContracts
    Intents <- ClaimingIntents
    PolicyAnswers <- QuietPolicies
    Checker = "static"
    ApprovedIds = {1, 2}
SPECIFICATION Spec
INVARIANT ConflictOnChangedIntent
