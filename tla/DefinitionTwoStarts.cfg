SPECIFICATION Spec
CONSTANTS
    k1 = k1
    k2 = k2
    go = go
    w1 = w1
    w2 = w2
    Keys = {k1, k2}
    Actions = {go}
    Workers = {w1, w2}
    Calls <- AllCalls
    MaxCopies = 0
INVARIANT
    OnlyOneStart
