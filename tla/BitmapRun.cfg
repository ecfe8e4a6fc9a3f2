CONSTANTS
    ByteBits = 4
    BufBytes = 2
    NrBytes = 4
    Bitmaps <- SomeBitmaps
SPECIFICATION Spec
INVARIANTS
    ChangesTheRunInOrder
CHECK_DEADLOCK FALSE
