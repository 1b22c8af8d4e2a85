SPECIFICATION Spec
CONSTANTS
    Sources <- MCSources
    Inputs <- MCInputs
INVARIANTS
    MeaningIsKept
    VariablesAreUsedUp
    NothingLeaks
