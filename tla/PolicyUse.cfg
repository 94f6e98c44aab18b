SPECIFICATION UseSpec
CONSTANTS
    ToolNames <- MCNames
    Lower <- MCLower
    Tools <- MCTools
    Files <- MCFiles
    Unreadable = Unreadable
    NoRules = NoRules
INVARIANTS AllowAllOnlyWhileUnreadable
PROPERTIES RuleStands
