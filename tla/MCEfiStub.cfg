CONSTANTS
    SLACK = 2
    MaxLen = 6
    MaxEvents = 4
SPECIFICATION Spec
INVARIANTS TablesLive KernelSeesFinalMap OneChangeSurvived MapTakenBack
PROPERTIES NoMemoryCallsWhileLeaving SlackSuffices
CHECK_DEADLOCK FALSE
