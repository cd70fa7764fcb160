CONSTANTS
    PlanLists <- MCPlanLists
    MaxCalls = 2
SPECIFICATION Spec
INVARIANT TypeOK
INVARIANT ReverseOrder
 
 
INVARIANT RecoveryIsAudited
PROPERTY NoSecondAttempt
PROPERTY CallEnds
