CONSTANTS
    Baud = 300
    MaxIn = 1
    MaxCalls = 2
    Size = 4
    efi_loglevel = 7
    Null = null
    PointerSize = 1
    One = {}
    Two = {}
    High = {"D83D"}
    Low = {"DE00"}
    Bits <- MCBits
    Utf8 <- MCUtf8
    Messages <- MCMessages
    Report <- MCReport
    Truncated <- MCTruncated
    Stub <- MCStub
SPECIFICATION Spec
INVARIANTS NothingLost RateSet LineGetsText CallersTold
PROPERTIES Returns Stops
CHECK_DEADLOCK FALSE
