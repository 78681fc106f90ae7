SPECIFICATION FairSpec
CONSTANTS
    Regs = {0, 1, 6, 7, 8}
    ValueSize = 16
    CtxFields = {0}
    MAX_CALL_FRAMES = 16
    Programs <- MCPrograms
    CtxBytes = {0, 1, 8, 9, 255}
INVARIANTS TypeOK BranchCounts InProgressIsAncestor AcceptSafe AcceptEnds
PROPERTY Decided
CHECK_DEADLOCK FALSE
