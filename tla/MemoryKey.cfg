SPECIFICATION Spec
CONSTANTS
    Slot = 2
    Slots = 2
    MaxFrames = 2
    KeySize = 1
    MaxSteps = 4
    Programs = {"foreign_key"}
INVARIANT NoFailure
CHECK_DEADLOCK FALSE
