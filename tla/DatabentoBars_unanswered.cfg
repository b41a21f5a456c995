SPECIFICATION Spec
CHECK_DEADLOCK FALSE
CONSTANTS
    LastDay = 4
    Splits = {2}
    Gaps = {}
    Margin = 1
    MaxImports = 2
    ImportRunsAlone = TRUE
INVARIANTS
    UnansweredDaysAreDetected
