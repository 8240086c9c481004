CONSTANTS
    Every = 2
    NameLen = 4
    Top = 11
    At1 = 12
    Absolute = {11}
    Undefined = {3}
    Debug = {}
    Weak = {2}
    ReadOnly = 1
    Dollar = 10
    Underscore = 6
    kernel_start_addr = 0
    Maps <- MCMaps
    Ranges <- MCRanges
    TextStart <- MCTextStart
    TextEnd <- MCTextEnd
    Generated <- MCGenerated
    Provided <- MCProvided
    KeptAbsolutes <- MCKept
SPECIFICATION Spec
INVARIANTS CompressionSound NamesFound NearestSymbol PassesAgree
CHECK_DEADLOCK FALSE
