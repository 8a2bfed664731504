SPECIFICATION Spec
CONSTANTS
    Nodes = {n1}
    Current = {n1}
    Loads = {l1, l2}
    Screens = {s1}
    Decisions = {d1, d2}
    MaxVersions = 2
    MaxKills = 1
    MaxFailures = 1
INVARIANT TypeOK
INVARIANT OutcomesHold
INVARIANT WaitsEnd
PROPERTY HeartsStay
CHECK_DEADLOCK FALSE
