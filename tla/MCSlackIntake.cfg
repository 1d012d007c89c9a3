CONSTANTS
    Messages = {1, 2, 3}
    Units = {1, 2}
    UnitOf <- MCUnitOf
    Channels = {"one", "two"}
    ChannelOf <- MCChannelOf
    Start = {"one"}
    Flushes = {w1, w2}
    MaxDeliveries = 3
    MaxChanges = 1
    MaxFaults = 1
SPECIFICATION FairSpec
INVARIANTS TypeOK FlushedIsCanonical SnapshotsAreUnique
PROPERTIES StagingDrains
CHECK_DEADLOCK FALSE
