SPECIFICATION Spec
CONSTANTS
    NUM_COMPUTORS = 4
    Base = 2
    X = 1
    Options <- MCOptions
INVARIANTS GoodProofsIntact FlagsSpoilTheTail
