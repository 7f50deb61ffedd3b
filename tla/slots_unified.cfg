SPECIFICATION Spec
CONSTANTS
    a = a
    b = b
    NoToken = NoToken
    NSeqMax = 3
    NCtx = 6
    Unified = TRUE
    Token <- MCToken
    NBatch = 2
    Prompt <- MCPrompt
    NPredict <- MCNPredict
    SystemPrompt <- MCSystemPrompts
    Leftover <- MCLeftover
    Sampled <- MCToken
    MaxTasks = 2
    DecodeMayFail = TRUE
    SamplerMayThrow = TRUE
INVARIANTS
    TypeOK
    
    
    AdmittedTasksFit
    NothingAfterTheEnd
    NoOvertaking
