SPECIFICATION PredSpec
CONSTANTS
    r1 = r1  r2 = r2  r3 = r3  w1 = w1  w2 = w2  None = None
    Requests = {r1, r2, r3}
    ChatOf <- MCChatOf
    Workers = {w1, w2}
    Setups <- MCSetups
INVARIANTS PredTypeOK AbortFindsRun TokensInOrder
PROPERTY EveryResponseEnds

\* All requests may be answered.
CHECK_DEADLOCK FALSE
