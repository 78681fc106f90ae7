SPECIFICATION Spec
CONSTANTS
    Setups <- UnprivilegedSetups
    ImmMin <- MinusFour
    ImmMax = 3
INVARIANTS ReducesUnprivileged
CHECK_DEADLOCK FALSE
