SPECIFICATION CtxSpec
CONSTANTS
    a = a
    b = b
    NoToken = NoToken
    NSeqMax = 2
    NCtx = 6
    Unified = FALSE
    Token <- MCToken
    NBatch = 2
    Prompt <- MCPrompt
    NPredict <- MCNPredict
    SystemPrompt <- MCNone
    Leftover <- MCNone
    Sampled <- MCSampled
    MaxTasks = 1
    DecodeMayFail = TRUE
    SamplerMayThrow = TRUE
    GenPrompt <- MCGuardPrompt
    GenPredict <- MCGenPredict
    EvalText <- MCEvalText
    ScoreText <- MCScoreText
    EmbedText <- MCEmbedText
    SpecLeft <- MCNone
    MaxChoices = 1
    Saves = TRUE
    RejectClears = FALSE
PROPERTIES
    SlotsSeeSequence0
