\* Two patches on two files, one of them new, and one file outside; two
\* LLVM releases, the next one only after a run that ended well.
CONSTANTS
    vec = vec
    kernel = kernel
    other = other
    Paths <- MCPaths
    Tracked <- MCTracked
    Series <- MCSeries
    MaxEdits = 2
    MaxCrashes = 2
    Versions <- MCVersions
    Members <- MCMembers
    Parts <- MCParts
    SwitchAnytime = FALSE
SPECIFICATION FairConfSpec
INVARIANTS
    TreeIsSeries
    RuntimesAreBuilt
PROPERTIES
    ForeignUntouched
    Recovers
