SPECIFICATION AttemptsSpec
CONSTANTS
    MaxClock = 2
    LabelNames <- MCLabelNames
    LabelValues <- OneValue
    Receivers = {"pager", "chat"}
    Rules <- FanOutRules
    MuteIds = {}
    MuteRequests <- NoRequests
    MaxExpires = 0
    Handlers = {h1, h2}
    Batches <- FanOutBatches
    Down = {"pager"}
    Faults = {"read", "write", "webhook", "cancel", "crash"}
    MaxFaults = 1
    Impatient = FALSE
INVARIANTS
    TypeOK
    SentIsAcked
    ResolvedIsToldResolved
    RowIsLatest
PROPERTIES
    FanOutComplete
    KeepsPromise
    RepeatsHaveACause
