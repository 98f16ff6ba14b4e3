CONSTANTS
    TotalCpus = 2
    Frequencies <- MCFrequencies
    TableMayBeUnreadable = TRUE
    NULL = NULL
SPECIFICATION Spec
INVARIANTS LimitsFollowRequests DisplayOnRestores
