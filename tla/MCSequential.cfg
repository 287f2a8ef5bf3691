SPECIFICATION SenderSpec
CONSTANTS
    MaxClock = 3
    LabelNames <- MCLabelNames
    LabelValues <- OneValue
    Receivers = {"pager", "chat"}
    Rules <- PartialRules
    MuteIds = {}
    MuteRequests <- NoRequests
    MaxExpires = 0
    Handlers = {h1}
    Batches <- EmptyBatches
    Down = {"pager"}
    Faults = {"read", "webhook"}
    MaxFaults = 2
    Impatient = TRUE
    Watched <- MCWatched
    Companions <- MCCompanions
    Ahead = 1
    MaxOccurrences = 2
INVARIANTS
    SenderTypeOK
PROPERTIES
    NeverRepeats
    OccurrenceTold
