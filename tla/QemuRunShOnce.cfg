SPECIFICATION Spec
CONSTANTS
    Names = {n1, n2}
    Programs = {p1}
    Modes = {TRUE}
    QEMU_BATCH = 2
    MaxRestarts = 0
    DeadlinesFire = FALSE
    FaultsHappen = FALSE
    NoFile = NoFile
    Blank = Blank
    Infra = Infra
    Skipped = Skipped
    NoMsg = NoMsg
    Flush = Flush
INVARIANTS
    RunShOnce
CHECK_DEADLOCK FALSE
