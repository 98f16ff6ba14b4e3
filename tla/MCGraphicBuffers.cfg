CONSTANTS
    b1 = b1
    b2 = b2
    h1 = h1
    h2 = h2
    small = small
    large = large
    f1 = f1
    NULL = NULL
    Buffers <- MCBuffers
    Handles <- MCHandles
    Params <- MCParams
    Fences <- MCFences
    Grallocs <- MCGrallocs
SYMMETRY Symmetry
SPECIFICATION Spec
INVARIANTS TypeOK OwnedOnce NothingElseLost WrapperHandleLive RecordsMatch FencesRespected
PROPERTY ImplementsOwnership
