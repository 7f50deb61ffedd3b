\* The AVX2 GEMV over two chunks and two passes: the second pass starts from
\* the sums of the first.
SPECIFICATION Spec
CONSTANTS
    Kernels <- MCAVX2
    Calls <- MCCalls
    Size = 30
    Rows = 2
    Cols = 2
    Together = 2
    Chunk = 2
    Deep = TRUE
INVARIANTS
    SumsInOrder
CHECK_DEADLOCK FALSE
