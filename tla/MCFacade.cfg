CONSTANTS
    Refund = Refund
    None = None
    Calls = {c1, c2}
    Names <- MCNames
    Keys <- MCKeys
    Constraints = {}
    Contracts <- MCContracts
    Intents <- MCIntents
    PolicyAnswers <- QuietPolicies
    Checker = "none"
    ApprovedIds = {}
    Fields <- MCFields
    Arguments <- MCArguments
    Wrappers <- MCWrappers
SPECIFICATION FacadeSpec
INVARIANT FacadeTypeOK
INVARIANT OneEffectPerAction
INVARIANT DerivedKeysDoNotAlias
INVARIANT OutputMeansSuccess
PROPERTY ClaimsSettle
