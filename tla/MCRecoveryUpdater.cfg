SPECIFICATION Spec
CONSTANTS
    good = good
    short = short
    bare = bare
    foreign = foreign
    junk = junk
    NULL = NULL
    Images <- MCImages
    Headers <- MCHeaders
    Size <- MCSize
    NumBlocks = 2
    IfwiBytes <- MCIfwiBytes
    ParsedTokens <- MCParsedTokens
    MaxAttempts = 2
    MaxLosses = 2
INVARIANTS
    OnePartitionIntact
    ReadOnlyAfterwards
PROPERTY ImplementsTwoSlotUpdate
\* The calls are bounded.
CHECK_DEADLOCK FALSE
