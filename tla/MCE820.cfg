CONSTANTS
    MaxAddr = 2
    MaxSize = 3
    MaxType = 2
    MaxLen = 3
    MemoryMaps <- MCMaps
    WORD = 16
    E820MAX = 3
    HOLE_START = 2
    HOLE_END = 3
SPECIFICATION Spec
INVARIANTS PrecedenceOfPairs Canonical HoleCutOut TablesFit
CHECK_DEADLOCK FALSE
