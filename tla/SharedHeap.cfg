\* All operations, those that leak included.
SPECIFICATION Spec
CONSTANTS
    Tasks = {t1, t2}
    Blocks = {b1, b2, b3}
    Fields = {f, g}
    Nil = Nil
    MaxReferences = 3
    UpdatesRecords = TRUE
    CallsRace = TRUE
SYMMETRY Symmetry
INVARIANTS
    CountsBalance
    
    SynchronizedIsClosed
PROPERTIES
    OnlyUnsharedBlocksChange
