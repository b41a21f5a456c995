SPECIFICATION Spec
CHECK_DEADLOCK FALSE
CONSTANTS
    Orders = {1}
    Parts <- PartsInOrder
    MaxFaults = 2
    Streams = {s1}
    MaxLosses = 2
    Tests = {f1}
    Sellers = {f1}
    Requests = {q1, q2}
    MaxTries = 1
    Charts = {c1, c2}
    Days = 4
    Holidays = {1}
    ExDate = 4
    MaxDrops = 1
    Pages = {p1, p2}
    MaxStreams = 1
    MaxChanges = 1
    FirstMembers = {"A", "B"}
    NextMembers = {"B", "C"}
    MaxDay = 4
    MaxFailures = 1
    Splits = {3}
    Gaps = {4}
    Margin = 1
    MaxImports = 2
    MaxPaidDownloads = 2
    MaxStops = 1
    MaxErrors = 2
    ChangePages = {p3}
    Tables = {"a"}
    MaxVersion = 3
    MaxFeedFaults = 1
    MaxConnections = 2
    MaxFills = 1
INVARIANTS
    IbkrInv
    
    NoSplitIsHidden
    LiveInv
    DataInv
PROPERTIES
    EachCancelIsTrue
    EndedOrderIsClosed
    LinkComesBack
    AdjustedTestsRestart
    
    
