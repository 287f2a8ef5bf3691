SPECIFICATION UISpec
CONSTANTS
    MaxClock = 3
    LabelNames <- MCLabelNames
    LabelValues <- MCUIValues
    Receivers = {}
    Rules <- NoRules
    MuteIds = {m1}
    MuteRequests <- PendingMute
    MaxExpires = 1
    Pushes <- MCPushes
    AlertLimit = 2
    Links <- MCLinks
    Texts <- MCTexts
    Spaced <- MCSpaced
    Fields <- MCFields
    Users <- MCUsers
    Minute = 2
    Hour = 2
INVARIANTS
    UITypeOK
    TabIsUnmuted
    NoAlertHidden
    SteadyIsShown
    HistoryNotActive
    TabsFollowWebhook
PROPERTIES
    StartsAtOnce
    LinkHonoured
