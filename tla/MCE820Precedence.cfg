CONSTANTS
    MaxAddr = 2
    MaxSize = 2
    MaxType = 2
    MaxLen = 3
    MemoryMaps <- MCMaps
    WORD = 16
    E820MAX = 8
    HOLE_START = 1
    HOLE_END = 2
SPECIFICATION Spec
INVARIANT PrecedenceKept
CHECK_DEADLOCK FALSE
