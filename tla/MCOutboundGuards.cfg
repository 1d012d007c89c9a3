CONSTANTS
    Turns = {t1, t2}
    TTL = 2
    Window = 2
    PerMinute = 3
    PerTurn = 2
    MaxTime = 3
    MaxCalls = 3
    MaxFlips = 2
    MaxFaults = 1
SPECIFICATION Spec
SYMMETRY MCSymmetry
INVARIANTS TypeOK SwitchTakesHold AttemptsAreAudited
CHECK_DEADLOCK FALSE
