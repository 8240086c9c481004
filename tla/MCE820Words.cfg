CONSTANTS
    MaxAddr = 3
    MaxSize = 2
    MaxType = 2
    MaxLen = 2
    MemoryMaps <- MCMaps
    WORD = 3
    E820MAX = 8
    HOLE_START = 1
    HOLE_END = 2
SPECIFICATION Spec
INVARIANT OnlyReportedRam
CHECK_DEADLOCK FALSE
