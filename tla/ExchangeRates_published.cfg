SPECIFICATION Spec
CHECK_DEADLOCK FALSE
CONSTANTS
    WebStarts = {1}
    AssistantStarts = {}
    Late = 2
INVARIANTS
    NoRateIsLost
