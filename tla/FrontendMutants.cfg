SPECIFICATION Spec
CONSTANTS
    Alphabet = {}
    MaxFile = 1
    Singles = {}
    Seeds <- MCSeeds
    Maps = {3}
    MaxBody = 1
    Offsets <- MCOffsets
    Imms = {0, 2}
    MaxMutations = 1
    MaxCallFrames = 2
    StackSize = 40
INVARIANT MutantDecodes
CHECK_DEADLOCK FALSE
