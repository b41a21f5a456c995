SPECIFICATION MCSpec
CHECK_DEADLOCK FALSE
CONSTANTS
    ForwardTests = {f1}
    Requests = {r1, r2}
    ByHand = ByHand
    Background = Background
    NoRequest = NoRequest
    Quantities = {1, 2}
    Capitals = {2}
    StartPosition = 1
    StartCash = 2
    MaxOrders = 3
    MaxFaults = 1
    RareEvents = {"held"}
    HandOrders = 2
INVARIANTS
    OneCheckOneOrder
PROPERTIES
    ForwardTestSendsAreFunded
    FillsAreRecorded
