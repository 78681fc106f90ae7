SPECIFICATION Spec
CONSTANTS
    MAX_REFS = 2
    MaxCallFrames = 2
    MaxRecords = 2
    Sites = {}
    Sizes = {4, 16}
    ValueSize = 8
    Programs = {"small_buffer"}
    MaxSteps = 6
INVARIANTS Covered NoFault
CHECK_DEADLOCK FALSE
