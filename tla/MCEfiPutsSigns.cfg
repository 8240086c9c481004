CONSTANTS
    Lim = 5
    Texts <- MCSigns
    Strays <- MCNone
SPECIFICATION Spec
INVARIANT TextShown
CHECK_DEADLOCK FALSE
