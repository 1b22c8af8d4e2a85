\* Three lists, and a channel that is full with two elements.
SPECIFICATION Spec
CONSTANTS
    NumLists = 3
    Length <- SomeLengths
    Capacity = 2
INVARIANTS
    NothingIsLost
\* The result has ended or is dropped, or nobody asks for the rest of it.
CHECK_DEADLOCK FALSE
PROPERTIES
    DroppedRaceEnds
    ImplementsMerge
