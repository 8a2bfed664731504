SPECIFICATION Spec
CONSTANTS
    MaxSignals = 1
    MaxUsers = 2
    Emitters = 1
    BatchLimit = 1
    QueueCap = 1
    MaxFaults = 0
    MaxDbFaults = 0
    MaxCrashes = 0
    QuietSignOut = FALSE
    SlowStatements = FALSE
INVARIANT AttributionHolds
