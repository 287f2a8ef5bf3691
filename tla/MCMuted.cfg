SPECIFICATION FairSpec
CONSTANTS
    MaxClock = 3
    LabelNames <- MCLabelNames
    LabelValues <- OneValue
    Receivers = {"pager", "chat"}
    Rules <- PartialRules
    MuteIds = {m1, m2}
    MuteRequests <- TeamMutes
    MaxExpires = 1
    Handlers = {h1}
    Batches <- MuteBatches
    Down = {"pager"}
    Faults = {"read", "write", "webhook", "cancel", "crash"}
    MaxFaults = 1
    Impatient = FALSE
INVARIANTS
    MuteRespected
PROPERTIES
    SuppressedOnlyInForce
    HealthyReceiversHear
