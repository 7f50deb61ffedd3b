\* The attention kernels: online softmax over blocks of positions.
CONSTANTS
    Calls <- MCCalls
    Block = 3
    Kernels = {"neon", "fhm", "amd64"}
    Size <- MCSize
    NegInf <- MCNegInf
SPECIFICATION Spec
INVARIANTS
    AttnInBounds
    SoftmaxOfRange
PROPERTIES
    ImplementsRecurrence
CHECK_DEADLOCK FALSE
