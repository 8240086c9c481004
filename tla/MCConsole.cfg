CONSTANTS
    W = 3
    H = 2
    Glyphs = {a, b}
    Blank = blank
    MaxText = 7
SPECIFICATION Spec
PROPERTIES StraysOnlyAtHome ImplementsPaper
CHECK_DEADLOCK FALSE
