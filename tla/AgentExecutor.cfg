SPECIFICATION Spec
CONSTANTS
    c1 = c1  c2 = c2  c3 = c3  A = A  B = B  t1 = t1  edit = edit  zero = zero
    wipe = wipe  isolate = isolate  whois = whois
    Reqs = {c1, c2, c3}
    Runs = {A, B}
    RunOf <- MCRunOf
    StepOf <- MCStepOf
    MaxIterations = 1
    Tools <- MCTools
    ReturnDirect = {whois}
    ExceptionTool = ExceptionTool
    UnknownTool = UnknownTool
    JudgeModel = FALSE
    HandleParsingErrors = FALSE
    Tabs = {t1}
    Edits = {}
    Falsy = {}
    NoEdit = NoEdit
    NoReq = NoReq
    NotAsked = NotAsked
    Pending = Pending
    Original = Original
    NotRun = NotRun
    LogMayFail = FALSE
    PolicyChanges = FALSE
    ToolNames <- MCNames
    Lower <- MCLower
    Files <- MCFiles
    Unreadable = Unreadable
    NoRules = NoRules
INVARIANTS PolicyObeyed NoCallOutlivesItsStep
PROPERTIES EveryRunEnds
\* All runs may have ended.
CHECK_DEADLOCK FALSE
