CONSTANTS
    CMDLINE_SIZE = 3
    HEADER_LENGTH = 12
    SECTOR_SIZE = 4
    BUFSIZ = 2
    Bases <- MCBases
    Kernels <- MCKernels
    Ramdisks <- MCRamdisks
    Lines <- MCLines
    Disks = {10, 13, 40}
    Cuts = {5, 8, 14, 17}
    Garbage = {0, 2, 7}
    VARIANT = 35
SPECIFICATION Spec
CHECK_DEADLOCK FALSE
INVARIANTS HeaderTrue UnpackInverts
PROPERTY UnpackEnds
