SPECIFICATION Spec
CONSTANTS
    a = a
    b = b
    z = z
    go = go
    alt = alt
    None = None
    Keys = {a, b, z}
    Actions = {go, alt}
    Contracts = {c1, c2, c3}
    Workers = {w1, w2}
    Definitions <- ReviewDefinitions
    MaxContracts = 1
    MaxHistory = 4
SYMMETRY RequestSymmetry
INVARIANTS
    TypeOK
    AuditTrailJustified
    CurrentStepAudited
    CompletedIffEndEntered
    FewMovesPastEnd
    PlanNearlyKept
PROPERTIES
    ImplementsRun
    FreshRequestsKeepPromises
