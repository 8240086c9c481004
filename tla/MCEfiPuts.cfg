CONSTANTS
    Lim = 5
    Texts <- MCTexts
    Strays <- MCStrays
SPECIFICATION Spec
INVARIANTS InBuffer StopsAtZero TextShown
CHECK_DEADLOCK FALSE
