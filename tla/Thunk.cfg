\* Two tasks: no symmetry, which temporal properties forbid.  What is proved
\* in ThunkProofs holds for more tasks.
SPECIFICATION Spec
CONSTANTS
    Tasks = {t1, t2}
    Values = {v1, v2}
    Environment = Environment
    Hollow = Hollow
    None = None
    MaxReferences = 2
INVARIANTS
    OneEvaluation
    PayloadIsThere
    MetadataFits
PROPERTIES
    ImplementsLazyValue
\* The thunk has been freed: nothing is left to do.
CHECK_DEADLOCK FALSE
