\* One context and two pools of three threads, graphs of two nodes.
CONSTANTS
    Pools <- MCPools
    Threads <- MCThreads
    Nodes = 2
SPECIFICATION FairSpec
INVARIANTS
    NothingFreedIsUsed
    CountsMatchPool
PROPERTIES
    
    CallsReturn
CHECK_DEADLOCK FALSE
