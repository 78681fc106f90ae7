SPECIFICATION Spec
CONSTANTS
    Setups <- GapSetups
    ImmMin <- MinusFour
    ImmMax = 3
INVARIANTS StaysFinding
CHECK_DEADLOCK FALSE
