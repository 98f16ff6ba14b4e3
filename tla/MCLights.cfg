CONSTANTS
    slow = slow
    fast = fast
    Periods <- MCPeriods
    Requests <- MCRequests
    WritesMayFail = TRUE
SPECIFICATION Spec
INVARIANTS NeverSteadyAndBlinking LedShowsFirstLitLight
PROPERTY OnlyFirstLitLightTurnsOn
