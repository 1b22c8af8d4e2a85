SPECIFICATION Spec
CONSTANTS
    Keys <- MCKeys
    Values <- MCValues
    KeyHash <- MCKeyHash
    ValueHash <- MCValueHash
    LayerHash <- MCLayerHash
    HashBits = 5
    IndexBits = 2
    Empty = Empty
    Endless = Endless
    v = v
    w = w
INVARIANTS
    RemovalsKeepOtherKeys
CHECK_DEADLOCK FALSE
