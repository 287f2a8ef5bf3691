SPECIFICATION Spec
CONSTANTS
    MaxClock = 3
    LabelNames <- MCLabelNames
    LabelValues <- OneValue
    Receivers = {"pager", "chat"}
    Rules <- TeamRule
    MuteIds = {}
    MuteRequests <- NoRequests
    MaxExpires = 0
    Handlers = {h1}
    Batches <- RaceBatches
    Down = {}
    Faults = {}
    MaxFaults = 0
    Impatient = FALSE
INVARIANTS
    FiringIsToldFiring
