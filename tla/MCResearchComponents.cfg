SPECIFICATION MCSpec
CHECK_DEADLOCK FALSE
CONSTANTS
    MaxBacktests = 2
    Universes = {"recorded", "screen"}
    Limits = {1, 2}
    MaxStops = 1
    Instruments = {"X", "Y"}
    Opens <- EachPeriod
    StartCash = 3
    MaxOrders = 3
    Members = {1, 2}
    HoldCount = 1
    MaxBarTime = 3
    MaxBars = 5
    Saves = {1, 2}
    Codes = {"a"}
    MaxStrategies = 2
    MaxVersions = 2
    MaxPrompts = 1
    Changes = {1}
    Runs = {1}
    Definitions = {"a", "b"}
    ScreenContents = {"a"}
    Conversations = {3}
    MaxRows = 2
    MaxNames = 1
    WebStarts = {1, 2}
    AssistantStarts = {3}
    Late = 2
    MaxUniverseSize = 3
    MaxSweepRuns = 6
    MaxSweepParameters = 2
    Sockets = {s1, s2}
    MaxRuns = 2
    Users = {u1, u2}
    Dialogs = {d1, d2}
    MaxCredentials = 1
    MaxTokens = 2
    MaxLoginPrompts = 2
    MaxRestarts = 1
    Calls = {t1, t2}
    MaxToolBacktests = 1
    Polls = 2
INVARIANTS
    
    QueueInv
    OrdersInv
    SavedWorkInv
    MetricsAreConsistent
    InputsAreWhole
    BacktestsAreConverted
    DefinitionsAreExact
    
PROPERTIES
    FinalStatusStays
    QueuedEnds
    ChoicesOfUserStay
    
    NothingStaysBehind
