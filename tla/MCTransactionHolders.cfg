CONSTANTS
    Holders = {h1, h2}
    None = None
    Approval = Approval
    Approvals <- MCApprovals
    ApprovalLists <- MCApprovalLists
    Times = {0, 1}
    created_at = 1
SYMMETRY HolderSymmetry
SPECIFICATION Spec
INVARIANT TerminalStatesStay
INVARIANT OneOutcomeUnlessShared
INVARIANT LegalMovesSucceed
