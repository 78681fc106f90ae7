SPECIFICATION Spec
CONSTANTS
    W = 3
    H = 2
    Ops <- SoundOps
    RegOps <- SoundRegOps
    Conds <- SoundConds
    Imms <- MCImms
    MaxSteps = 3
    MaxVisits = 1
INVARIANTS
    TypeOK
    Covered
    SidesExplored
    LinksHold
CHECK_DEADLOCK FALSE
