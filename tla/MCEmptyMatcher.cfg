SPECIFICATION Spec
CONSTANTS
    MaxClock = 3
    LabelNames <- MCLabelNames
    LabelValues <- ValuesAndNone
    Receivers = {}
    Rules <- NoRules
    MuteIds = {m1}
    MuteRequests <- EmptyMutes
    MaxExpires = 1
    Pushes <- Unlabelled
    AlertLimit = 2
INVARIANTS
    TabIsUnmuted
