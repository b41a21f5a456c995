SPECIFICATION Spec
CHECK_DEADLOCK FALSE
CONSTANTS
    Changes = {1}
    Runs = {}
    Definitions = {"a", "b"}
    Conversations = {3}
    MaxRows = 1
    MaxNames = 1
PROPERTIES
    KeptScreenStays
