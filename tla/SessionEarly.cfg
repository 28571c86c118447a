CONSTANTS
    PromptChunks = 1
    ResultChunks = 1
    QueueSlots = 1
    Keys = 1
    Retries = 1
    ScreenClears = FALSE
    Messages = 1
    Tools = {}
    ToolCalls = 0
    TextChunks = 1
    Attempts = 2
    LLMFails = FALSE
    Heartbeats = 0
    EarlyTimeouts = 1
SPECIFICATION FairSpec
PROPERTIES EveryCallReturns
CHECK_DEADLOCK FALSE
