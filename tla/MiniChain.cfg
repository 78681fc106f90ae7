SPECIFICATION Spec
CONSTANTS
    Regs = {0, 1, 6, 7, 8}
    ValueSize = 16
    CtxFields = {0}
    MAX_CALL_FRAMES = 16
    Programs <- ChainProgram
    CtxBytes = {0, 1, 8, 9, 255}
INVARIANT AcceptSafe
CHECK_DEADLOCK FALSE
