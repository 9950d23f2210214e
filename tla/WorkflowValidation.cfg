SPECIFICATION Spec
CONSTANTS
    k1 = k1
    k2 = k2
    k3 = k3
    Keys <- MCKeys
    Actions <- MCActions
    Definitions <- MCDefinitions
INVARIANTS
    TypeOK
    SearchInv
    VerdictExact
    UnreachableExact
PROPERTY
    Terminates
CHECK_DEADLOCK FALSE
