SPECIFICATION Spec
CONSTANTS
    W = 3
    H = 2
    Ops <- AllOps
    RegOps <- AllOps
    Conds <- CondOps
    Imms <- MCImms
    MaxSteps = 5
    MaxVisits = 2
INVARIANT Covered
CHECK_DEADLOCK FALSE
