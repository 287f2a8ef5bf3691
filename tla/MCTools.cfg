SPECIFICATION Spec
CONSTANTS
    LabelNames <- MCLabelNames
    LabelValues <- MCLabelValues
    Receivers = {}
    Rules <- NoRules
    Files <- MCFiles
    Cases <- MCCases
INVARIANTS
    ToolsTypeOK
    RulesLeadSomewhere
    LoopsAgree
    WarningsAreTrue
    PassedCasesCountCopies
CHECK_DEADLOCK FALSE
