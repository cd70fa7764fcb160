CONSTANTS
    Keys = {k1, k2}
    Tokens = {u1, u2}
    Results = {r1, r2}
    None = None
    Threads = {t1, t2}
SPECIFICATION Spec
INVARIANT TypeOK
INVARIANT SingleOwner
INVARIANT OwnerIsGrantee
PROPERTY CompletionIsFinal
PROPERTY Linearizable
PROPERTY LockProgress
