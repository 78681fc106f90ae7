SPECIFICATION Spec
CONSTANTS
    Slot = 2
    Slots = 2
    MaxFrames = 2
    KeySize = 1
    MaxSteps = 4
    Programs = {}
INVARIANTS TypeOK Covered NoFailure FramesActive
CHECK_DEADLOCK FALSE
