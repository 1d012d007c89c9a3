CONSTANTS
    Rows <- MCRows
    Texts = {t1}
    Blank = blank
    Absent = absent
    Gone = gone
    NoVector = null
    Free = free
    Workers = {w1, w2}
    Writers = {q1}
    Purger = kill
    TableOf <- MCTables
    BatchSize = 2
    MaxAttempts = 2
    MaxFaults = 1
SYMMETRY Symmetry
SPECIFICATION Spec
INVARIANTS TypeOK DoneIsFresh UnfinishedIsClaimable
PROPERTIES FailsOnlyWhenSpent ImplementsIndex
CHECK_DEADLOCK FALSE
