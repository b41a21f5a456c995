SPECIFICATION Spec
CHECK_DEADLOCK FALSE
CONSTANTS
    Instruments = {"X", "Y"}
    Opens <- GapOfY
    StartCash = 3
    MaxOrders = 3
INVARIANTS
    FillsAreCovered
