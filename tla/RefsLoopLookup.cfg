SPECIFICATION Spec
CONSTANTS
    MAX_REFS = 2
    MaxCallFrames = 2
    MaxRecords = 2
    Sites = {1}
    Sizes = {16}
    ValueSize = 8
    Programs = {"loop_lookup"}
    MaxSteps = 6
INVARIANTS Covered NoFault
CHECK_DEADLOCK FALSE
