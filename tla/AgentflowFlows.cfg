SPECIFICATION EngineSpec
CONSTANTS
    r1 = r1  r2 = r2  r3 = r3
    Runs = {r1}
    Sessions <- MCFlows
    NoInput = NoInput
    NoNode = NoNode
INVARIANTS EngineTypeOK UnconditionalOnce InputsDecide BranchTaken
PROPERTIES EveryRequestEnds
\* The session may be over.
CHECK_DEADLOCK FALSE
