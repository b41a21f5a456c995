SPECIFICATION CrashSpec
CHECK_DEADLOCK FALSE
CONSTANTS
    ForwardTests = {1, 2}
    ClientIds = {10}
    NoClientId = NoClientId
    MultiInstrument = {2}
    CrashLimit = 3
    MaxFaults = 2
    RareEvents = {}
INVARIANTS
    FreedIdIsQuiet
    OneProcessPerClientId
    OrdersUnderOwnClientId
    LiveHasNoInterruption
    CrashesCountedOnce
PROPERTIES
    ImplementsLease
