CONSTANTS
    back = back
    front = front
    Cameras <- MCCameras
    MaxCopies = 4
    NULL = NULL
    GARBAGE = GARBAGE
SPECIFICATION Spec
SYMMETRY Symmetry
INVARIANTS TypeOK CopiesUsedWhileLive CopiesReleased ModuleThere
