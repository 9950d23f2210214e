SPECIFICATION Spec
CONSTANTS
    a = a
    b = b
    z = z
    go = go
    alt = alt
    None = None
    Keys = {a, b, z}
    Actions = {go, alt}
    Contracts = {c1}
    Workers = {w1, w2}
    Definitions <- OneReview
    MaxContracts = 1
    MaxHistory = 4
PROPERTY
    CompletedIsFinal
