SPECIFICATION Spec
CONSTANTS
    Setups <- JsetSetups
    ImmMin <- MinusFour
    ImmMax = 3
INVARIANTS TargetsKept
CHECK_DEADLOCK FALSE
