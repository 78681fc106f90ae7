SPECIFICATION Spec
CONSTANTS
    Setups <- PlainSetups
    Fixtures <- MCFixtures
    POOL_CAP = 1
    NovelCap = 2
INVARIANTS ReportTold
CHECK_DEADLOCK FALSE
