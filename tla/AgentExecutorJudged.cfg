SPECIFICATION Spec
CONSTANTS
    c1 = c1  c2 = c2  c3 = c3  A = A  B = B  t1 = t1  edit = edit  zero = zero
    wipe = wipe  isolate = isolate  whois = whois
    Reqs = {c1, c2, c3}
    Runs = {A}
    RunOf <- MCRunOfOne
    StepOf <- MCStepOfOne
    MaxIterations = 2
    Tools = {isolate}
    ReturnDirect = {}
    ExceptionTool = ExceptionTool
    UnknownTool = UnknownTool
    JudgeModel = TRUE
    HandleParsingErrors = TRUE
    Tabs = {t1}
    Edits = {edit, zero}
    Falsy = {zero}
    NoEdit = NoEdit
    NoReq = NoReq
    NotAsked = NotAsked
    Pending = Pending
    Original = Original
    NotRun = NotRun
    LogMayFail = FALSE
    PolicyChanges = TRUE
    ToolNames <- MCNames
    Lower <- MCLower
    Files <- MCFilesEdit
    Unreadable = Unreadable
    NoRules = NoRules
INVARIANTS GovernedExecution LoggedBeforeEffect LogTellsOutcome
\* All runs may have ended.
CHECK_DEADLOCK FALSE
