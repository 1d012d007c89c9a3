CONSTANTS
    Rows <- MCRows
    Texts = {t1}
    Blank = blank
    Absent = absent
    Gone = gone
    NoVector = null
    Free = free
    Workers = {w1}
    Writers = {q1}
    Purger = kill
    TableOf <- MCOneTable
    BatchSize = 1
    MaxAttempts = 2
    MaxFaults = 1
SPECIFICATION FairSpec
PROPERTIES QueueDrains RequestsFinish
CHECK_DEADLOCK FALSE
