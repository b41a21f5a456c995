SPECIFICATION Spec
CHECK_DEADLOCK FALSE
CONSTANTS
    ForwardTests = {f1, f2}
    Requests = {r1}
    ByHand = ByHand
    Background = Background
    NoRequest = NoRequest
    Quantities = {1}
    Capitals = {1, 2}
    StartPosition = 1
    StartCash = 1
    MaxOrders = 2
    MaxFaults = 1
    RareEvents = {"held"}
INVARIANTS
    Reconciles
    CapitalIsKept
PROPERTIES
    ImplementsOwnership
