CONSTANTS
    accel = accel
    light = light
    SoPaths <- MCSoPaths
    SensorList <- MCSensorList
    HasBatch = {light}
    HasInject = {light}
    MinDelay <- MCMinDelay
    MaxDelay <- MCMaxDelay
    Periods <- MCPeriods
    Clients = {c1, c2}
    LoadMayFail = FALSE
    OpenMayFail = TRUE
    ListBeforeOpen = FALSE
    MaxOpens = 2
    NULL = NULL
SPECIFICATION Spec
CHECK_DEADLOCK FALSE
INVARIANT DevicesParallelToModules
