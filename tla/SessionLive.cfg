CONSTANTS
    PromptChunks = 2
    ResultChunks = 1
    QueueSlots = 1
    Keys = 1
    Retries = 1
    ScreenClears = FALSE
    Messages = 3
    Tools = {}
    ToolCalls = 0
    TextChunks = 2
    Attempts = 2
    LLMFails = FALSE
    Heartbeats = 0
    EarlyTimeouts = 0
SPECIFICATION FairSpec
INVARIANTS AnswersShown SidesIdleTogether
PROPERTIES EveryTurnEnds
CHECK_DEADLOCK FALSE
