CONSTANTS
    accel = accel
    light = light
    SoPaths <- MCSoPaths
    SensorList <- MCSensorList
    HasBatch = {light}
    HasInject = {light}
    MinDelay <- MCMinDelay
    MaxDelay <- MCMaxDelay
    Periods <- MCPeriods
    Clients = {c1, c2}
    LoadMayFail = TRUE
    OpenMayFail = TRUE
    ListBeforeOpen = TRUE
    MaxOpens = 3
    NULL = NULL
SPECIFICATION Spec
CHECK_DEADLOCK FALSE
INVARIANTS RoutedToOwner HandlesConsistent NoCrashOnceOpen
PROPERTY HandlesStable
