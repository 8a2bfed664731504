SPECIFICATION Spec
CONSTANTS
    MaxSignals = 3
    Inputs <- MCInputs
    Plans <- MCPlans
    FirstPlan <- MCFirstPlan
    Workers = {w1, w2}
    NoWorker = NoWorker
    Cap = 1
    BatchLimit = 2
    MaxFaults = 1
    MaxReplans = 1
    SignalTypeColumn = TRUE
INVARIANT TypeOK
INVARIANT AcknowledgedIsStored
INVARIANT RefusedForCause
INVARIANT CapPerInstance
INVARIANT SpansAreReal
PROPERTY ImplementsCustody
SYMMETRY Instances
CHECK_DEADLOCK FALSE
