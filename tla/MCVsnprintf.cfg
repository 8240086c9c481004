CONSTANTS
    Null = null
    PointerSize = 1
    One = {"a"}
    Two = {"00E9"}
    High = {"D83D"}
    Low = {"DE00"}
    Bits <- MCBits
    Utf8 <- MCUtf8
    Calls <- MCCalls
SPECIFICATION Spec
INVARIANTS InBuffer HoldsWhatFits AsMeant
CHECK_DEADLOCK FALSE
