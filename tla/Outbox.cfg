CONSTANTS
    Threads = {t1, t2}
    Operations = {o1, o2}
    Transactions = {x, y}
    MaxDepth = 2
    None = None
SPECIFICATION Spec
INVARIANT TypeOK
INVARIANT DuplicatesAreExplained
INVARIANT SummaryIsTruthful
INVARIANT LedgerFailureKeepsOutcome
PROPERTY OutcomeIsFinal
PROPERTY LockIsFreed
