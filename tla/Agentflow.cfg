SPECIFICATION EngineSpec
CONSTANTS
    r1 = r1  r2 = r2  r3 = r3
    Runs = {r1, r2, r3}
    Sessions <- MCSessions
    NoInput = NoInput
    NoNode = NoNode
SYMMETRY MCSymmetry
INVARIANTS RowsTellTruth
PROPERTIES HistoryKept RowLifecycle
\* The session may be over.
CHECK_DEADLOCK FALSE
