SPECIFICATION Spec
CONSTANTS
    MAX_REFS = 2
    MaxCallFrames = 2
    MaxRecords = 2
    Sites = {1, 2}
    Sizes = {4, 16}
    ValueSize = 8
    Programs = {}
    MaxSteps = 8
INVARIANTS TypeOK Covered NoFault
CHECK_DEADLOCK FALSE
