SPECIFICATION Spec
CONSTANTS
    MAX_REFS = 2
    MaxCallFrames = 2
    MaxRecords = 2
    Sites = {}
    Sizes = {16}
    ValueSize = 8
    Programs = {"callee_check"}
    MaxSteps = 10
INVARIANT NoFault
CHECK_DEADLOCK FALSE
