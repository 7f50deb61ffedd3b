\* Row dots: memory safety, clean traps and complete block loops.
CONSTANTS
    Kernels <- MCKernels
    Calls <- MCCalls
    Size = 72
SPECIFICATION Spec
INVARIANTS
    InBounds
    TrapIsClean
    TrapIsDeserved
    EveryBlockOnce
CHECK_DEADLOCK FALSE
