CONSTANTS
    Threads = {t1, t2}
    Operations = {o1}
    Transactions = {x}
    MaxDepth = 2
    None = None
SPECIFICATION Spec
INVARIANT ReleaseIsIdempotent
