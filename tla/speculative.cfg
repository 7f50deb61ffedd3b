\* Speculative decoding: two drafts a round, windows of five cells.
CONSTANTS
    a = a
    b = b
    EOG = EOG
    Token <- MCToken
    Prompt <- MCPrompt
    NPredict <- MCNPredict
    NDraft = 2
    NCtx = 5
    Cells <- MCCells
    Batch <- MCBatch
    DecodeMayFail = FALSE
SPECIFICATION Spec
INVARIANTS
    CachesAgree
    FailsOnlyWhenFull
    InterruptEndsRound
PROPERTIES
    ImplementsAutoregressive
