CONSTANTS
    PAGE_SIZE = 4
    MaxPfns = {5, 7}
    Regions <- MCRegions
    Sizes = {0, 1, 3, 6}
    Aligns = {1, 3, 4, 8}
    Goals = {0, 8}
    MaxAllocs = 3
SPECIFICATION Spec
INVARIANT RecordsExact
PROPERTIES ImplementsPool AllocStopsOnlyWhenFull GoalFirst
CHECK_DEADLOCK FALSE
