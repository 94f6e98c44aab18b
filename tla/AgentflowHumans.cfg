SPECIFICATION EngineSpec
CONSTANTS
    r1 = r1  r2 = r2  r3 = r3
    Runs = {r1, r2}
    Sessions <- MCTwoHumans
    NoInput = NoInput
    NoNode = NoNode
INVARIANTS StopsForHuman
\* The session may be over.
CHECK_DEADLOCK FALSE
