SPECIFICATION Spec
CONSTANTS
    Names = {n1, n2}
    Programs = {p1, p2}
    Modes = {FALSE, TRUE}
    QEMU_BATCH = 2
    MaxRestarts = 1
    DeadlinesFire = TRUE
    FaultsHappen = TRUE
    NoFile = NoFile
    Blank = Blank
    Infra = Infra
    Skipped = Skipped
    NoMsg = NoMsg
    Flush = Flush
SYMMETRY Symmetry
INVARIANTS
    TypeOK
    VerdictMode
    ConsumedHasResult
    VerdictIntegrity
CHECK_DEADLOCK FALSE
