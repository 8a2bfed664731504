SPECIFICATION Spec
CONSTANTS
    Workers = {w1, w2}
    MaxChanges = 1
SYMMETRY Alike
INVARIANTS
    ActivatedIsPro
CHECK_DEADLOCK FALSE
