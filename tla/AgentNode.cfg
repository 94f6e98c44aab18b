SPECIFICATION NodeSpec
CONSTANTS
    r1 = r1  r2 = r2  r3 = r3
    lookup = lookup  wipe = wipe  made_up = made_up
    Runs = {r1, r2, r3}
    Names = {lookup, wipe, made_up}
    Agents <- MCAgents
    MaxCalls = 2
    MaxRounds = 3
SYMMETRY MCSymmetry
INVARIANTS HumanFirst RanOnce RejectedNeverRuns RejectedToolsGone ProceedHonoured
    ConversationPaired
\* The session may be over.
CHECK_DEADLOCK FALSE
