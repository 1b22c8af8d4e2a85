\* Futures three deep, and five calls: each level suspends and is entered again.
SPECIFICATION Spec
CONSTANTS
    Depth = 3
    MaxCalls = 6
INVARIANTS
    NeverPanics
    ContextOnlyInPoll
\* The task has ended.
CHECK_DEADLOCK FALSE
PROPERTIES
    Completes
