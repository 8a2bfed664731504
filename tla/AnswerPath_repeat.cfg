SPECIFICATION Spec
CONSTANTS
    u1 = u1
    u2 = u2
    w1 = w1
    w2 = w2
    v1 = v1
    v2 = v2
    b1 = b1
    b2 = b2
    Users = {u1}
    Workers = {w1}
    Messages = {m1}
    q1 = q1
    q2 = q2
    Questions = {q1, q2}
    IntentOf <- MCIntentOf
    Region = Region
    Rows = {v1, v2}
    Strays = {}
    RowNamed <- MCRowsNamed
    NoRow = NoRow
    NoCall = NoCall
    Anonymous = Anonymous
    Process = Process
    ProcessCap = 9
    IdentityCap = 9
    Reserve = 1
    MaxCost = 2
    EmbedCost = 1
    ChainLength <- MCChainLength
    MaxRequests = 2
    MaxOutside = 0
INVARIANT RepeatIsServed
