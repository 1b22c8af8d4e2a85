\* Two tasks and three references: the theorems of ArcBlockProofs have no bounds.
\* No symmetry, which temporal properties forbid.
SPECIFICATION Spec
CONSTANTS
    Threads = {t1, t2}
    Refs = {r1, r2, r3}
    None = None
    StaticCount <- ThreeBitStaticCount
INVARIANTS
    CountMatchesReferences
    NoUseAfterFree
    WritesAreExclusive
    RelaxedLoadsSuffice
\* The block has been freed: nothing is left to do.
CHECK_DEADLOCK FALSE
PROPERTIES
    ImplementsOwnership
