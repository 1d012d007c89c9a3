CONSTANTS
    MaxToolCalls = 3
    MaxRevisions = 2
    MaxBatch = 3
SPECIFICATION FairSpec
INVARIANTS TypeOK HistoryIsWellFormed NeverCutOff CapIsRespected CapGetsAnAnswer ReplyIsChecked
PROPERTIES TurnEnds
CHECK_DEADLOCK FALSE
