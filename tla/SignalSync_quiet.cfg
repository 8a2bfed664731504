SPECIFICATION FairSpec
CONSTANTS
    MaxSignals = 3
    MaxUsers = 2
    Emitters = 2
    BatchLimit = 2
    QueueCap = 1
    MaxFaults = 1
    MaxDbFaults = 1
    MaxCrashes = 1
    QuietSignOut = TRUE
    SlowStatements = TRUE
INVARIANTS
    AttributionHolds
    QueueWithinCapPlusRace
PROPERTIES
    EventuallySettled
