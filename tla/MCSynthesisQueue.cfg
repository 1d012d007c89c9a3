CONSTANTS
    Jobs <- MCJobs
    Targets = {"risk", "person"}
    Stakeholders = {"person"}
    TargetOf <- MCTargetOf
    Drains = {w1, w2}
    Nobody = nobody
    Limit = 2
    Cap = 2
    MaxDays = 2
    MaxEdits = 1
    MaxFaults = 1
SPECIFICATION FairSpec
INVARIANTS TypeOK InsertCollidesOnlyAcrossMidnight JobsAreSettledWhole
PROPERTIES QueueDrains
CHECK_DEADLOCK FALSE
