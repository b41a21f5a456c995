SPECIFICATION Spec
CHECK_DEADLOCK FALSE
CONSTANTS
    ForwardTests = {1}
    ClientIds = {10}
    NoClientId = NoClientId
    MultiInstrument = {}
    CrashLimit = 3
    MaxFaults = 2
    RareEvents = {"other_login"}
INVARIANTS
    FreedIdIsQuiet
