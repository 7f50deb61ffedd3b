SPECIFICATION CtxSpec
CONSTANTS
    a = a
    b = b
    NoToken = NoToken
    NSeqMax = 2
    NCtx = 3
    Unified = TRUE
    Token <- MCToken
    NBatch = 1
    Prompt <- MCTaskPrompt
    NPredict <- MCNoBudget
    SystemPrompt <- MCSystemPrompt
    Leftover <- MCNone
    Sampled <- MCSampled
    MaxTasks = 1
    DecodeMayFail = TRUE
    SamplerMayThrow = FALSE
    GenPrompt <- MCGenPrompt
    GenPredict <- MCGenCounts
    EvalText <- MCEvalText
    ScoreText <- MCScoreText
    EmbedText <- MCEmbedLong
    SpecLeft <- MCSpecLeft
    MaxChoices = 1
    Saves = TRUE
    RejectClears = FALSE
INVARIANTS
    HistMirrors
    SampledFromItsPrompt
    InterruptStops
CHECK_DEADLOCK FALSE
