SPECIFICATION ChecksSpec
CHECK_DEADLOCK FALSE
CONSTANTS
    ForwardTests = {}
    Requests = {r1}
    ByHand = ByHand
    Background = Background
    NoRequest = NoRequest
    Quantities = {1}
    Capitals = {}
    StartPosition = 1
    StartCash = 0
    MaxOrders = 2
    MaxFaults = 0
    RareEvents = {}
PROPERTIES
    ByHandSendsAreFunded
