\* A shared buffer of 7 cells, three tasks, two generating at a time next to a
\* system prompt: batch assembly and the life of a task, to its end.
SPECIFICATION FairSpec
CONSTANTS
    a = a
    b = b
    NoToken = NoToken
    NSeqMax = 3
    NCtx = 7
    Unified = TRUE
    Token <- MCToken
    NBatch = 2
    Prompt <- MCStreamPrompt
    NPredict <- MCNPredict
    SystemPrompt <- MCSystemShared
    Leftover <- MCLeftover
    Sampled <- MCSampled
    MaxTasks = 3
    DecodeMayFail = TRUE
    SamplerMayThrow = FALSE
INVARIANTS
    BatchFits
    TokensAddUp
    NoTaskLost
PROPERTIES
    EveryTaskEnds
