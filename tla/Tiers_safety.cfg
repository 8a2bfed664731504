SPECIFICATION Spec
CONSTANTS
    Workers = {w1, w2}
    MaxChanges = 2
SYMMETRY Alike
INVARIANTS
    TierIsPaidFor
    KindIsHighestServed
CHECK_DEADLOCK FALSE
