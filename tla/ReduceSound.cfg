SPECIFICATION Spec
CONSTANTS
    Setups <- MCSetups
    ImmMin <- MinusFour
    ImmMax = 3
INVARIANTS TypeOK OneMinimal
PROPERTIES Shrinks Terminates
CHECK_DEADLOCK FALSE
