SPECIFICATION Spec
CONSTANTS
    r1 = r1
    r2 = r2
    Collections = {c1, c2}
    Routers = {r1, r2}
    Requests <- MCRequests
    MaxOddAnswers = 2
    MAX_RESOLUTION_DEPTH = 1
    MEMBER_CAP = 1
    Queries <- MCQueries
    PolicyConfigs <- MCPolicyConfigs
    PolicyLists <- MCPolicyLists
    MAX_CAP = 2
    FlowTables <- MCFlowTables
INVARIANT
    AbsenceIsConfirmed
CHECK_DEADLOCK FALSE
