SPECIFICATION FairSpec
CHECK_DEADLOCK FALSE
CONSTANTS
    ForwardTests = {1}
    ClientIds = {10}
    NoClientId = NoClientId
    MultiInstrument = {}
    CrashLimit = 2
    MaxFaults = 3
    RareEvents = {"other_login", "lost_answer"}
PROPERTIES
    CrashLimitHolds
    StopCompletes
    RunsAgain
