SPECIFICATION Spec
CONSTANTS
    Alphabet <- MCAlphabet
    MaxFile = 4
    Singles <- MCSingles
    Seeds <- MCSeeds
    Maps = {3}
    MaxBody = 3
    Offsets <- MCOffsets
    Imms = {0, 2}
    MaxMutations = 1
    MaxCallFrames = 2
    StackSize = 40
INVARIANTS TypeOK SlotsKept LoopHeadsExact AcceptedStaysInside DeadCodeRejected GeneratedPasses MutantPasses
PROPERTY Settles
CHECK_DEADLOCK FALSE
