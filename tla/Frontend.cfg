SPECIFICATION Spec
CONSTANTS
    Sources <- MCSources
    Imported <- MCImported
    Foreign <- MCForeign
    Aliases <- MCAliases
    Records <- MCRecords
    UserRecords <- MCUserRecords
    Inputs = {0, 1}
INVARIANTS
    CheckedProgramsAreSound
    CoercionKeepsTypes
    AcceptedProgramsCompile
    CompiledProgramsMeanTheSame
