SPECIFICATION FairSpec
CONSTANTS
    MaxClock = 1
    LabelNames <- MCLabelNames
    LabelValues <- OneValue
    Receivers = {"pager", "chat"}
    Rules <- PartialRules
    MuteIds = {}
    MuteRequests <- NoRequests
    MaxExpires = 0
    Handlers = {h1}
    Batches <- EndlessBatches
    Down = {"pager"}
    Faults = {}
    MaxFaults = 0
    Impatient = TRUE
PROPERTIES
    HealthyReceiversHear
