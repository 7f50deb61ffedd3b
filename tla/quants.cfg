\* Row dots: every kernel's block body against the meaning of the bytes.
CONSTANTS
    NB = 12
    Row <- MCRow
    Grid <- MCGrid
SPECIFICATION Spec
INVARIANTS
    QuantsOnce
    DecodesAsReference
    NoPairSaturates
    LoadsInBlock
    TileMatchesSingle
CHECK_DEADLOCK FALSE
