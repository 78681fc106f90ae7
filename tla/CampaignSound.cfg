SPECIFICATION Spec
CONSTANTS
    Setups <- MCSetups
    Fixtures <- MCFixtures
    POOL_CAP = 1
    NovelCap = 2
INVARIANTS TypeOK Accounted ArtifactsComplete PoolKept FindingsJustified
CHECK_DEADLOCK FALSE
