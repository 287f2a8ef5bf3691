SPECIFICATION Spec
CONSTANTS
    MaxClock = 2
    LabelNames <- MCLabelNames
    LabelValues <- OneValue
    Receivers = {"pager", "chat"}
    Rules <- TeamRule
    MuteIds = {}
    MuteRequests <- NoRequests
    MaxExpires = 0
    Handlers = {h1, h2}
    Batches <- MuteBatches
    Down = {}
    Faults = {}
    MaxFaults = 0
    Impatient = FALSE
PROPERTIES
    SeenOnlyForward
