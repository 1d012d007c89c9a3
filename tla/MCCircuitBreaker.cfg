CONSTANTS
    Callers = {c1, c2, c3, c4}
    FailureThreshold = 2
    HalfOpenMaxProbes = 2
    Cooldown = 2
    CallTime = 3
SPECIFICATION BreakerFairSpec
INVARIANTS BreakerTypeOK ProbesAreCounted
PROPERTIES Recovers Sheds
