SPECIFICATION TurnSpec
CONSTANTS
    t1 = t1  t2 = t2  t3 = t3
    Turns = {t1, t2, t3}
    Setups <- MCSetups
    MaxPlans = 2
SYMMETRY MCSymmetry
INVARIANTS TurnTypeOK RefusedStaysOut AnswersOnRecord Conversation RecallGrows
\* The session may be over.
CHECK_DEADLOCK FALSE
