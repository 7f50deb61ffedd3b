\* Repack kernels: bounds, and every sum complete and in order.
SPECIFICATION Spec
CONSTANTS
    Kernels <- MCKernels
    Calls <- MCCalls
    Size = 30
    Rows = 2
    Cols = 2
    Together = 2
    Chunk = 2
    Deep = FALSE
INVARIANTS
    RepackInBounds
    SumsInOrder
CHECK_DEADLOCK FALSE
