SPECIFICATION Spec
CONSTANTS
    Setups <- StrictSetups
    Fixtures <- MCFixtures
    POOL_CAP = 1
    NovelCap = 2
INVARIANTS StrictNotLenient
CHECK_DEADLOCK FALSE
