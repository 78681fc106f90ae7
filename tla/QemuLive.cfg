SPECIFICATION FairSpec
CONSTANTS
    Names = {n1}
    Programs = {p1}
    Modes = {TRUE}
    QEMU_BATCH = 1
    MaxRestarts = 0
    DeadlinesFire = TRUE
    FaultsHappen = TRUE
    NoFile = NoFile
    Blank = Blank
    Infra = Infra
    Skipped = Skipped
    NoMsg = NoMsg
    Flush = Flush
PROPERTIES
    AskAnswered
    DropJoins
CHECK_DEADLOCK FALSE
