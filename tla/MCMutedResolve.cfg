SPECIFICATION SenderSpec
CONSTANTS
    MaxClock = 4
    LabelNames <- MCLabelNames
    LabelValues <- OneValue
    Receivers = {"pager", "chat"}
    Rules <- TeamRule
    MuteIds = {m1}
    MuteRequests <- ShortMute
    MaxExpires = 0
    Handlers = {h1}
    Batches <- NoBatches
    Down = {}
    Faults = {}
    MaxFaults = 0
    Impatient = FALSE
    Watched <- MCWatched
    Companions <- Alone
    Ahead = 5
    MaxOccurrences = 2
PROPERTIES
    OccurrenceTold
