SPECIFICATION Spec
CONSTANTS
    MaxSignals = 2
    MaxUsers = 2
    Emitters = 2
    BatchLimit = 2
    QueueCap = 1
    MaxFaults = 1
    MaxDbFaults = 0
    MaxCrashes = 1
    QuietSignOut = FALSE
    SlowStatements = TRUE
INVARIANTS
    NoSilentLoss
    InflightIsHeldByPass
    OnlyHeldSignalsCross
PROPERTIES
    FailedStaysFailed
    ImplementsCustody
