CONSTANTS
    PromptChunks = 1
    ResultChunks = 1
    QueueSlots = 1
    Keys = 1
    Retries = 1
    ScreenClears = FALSE
    Messages = 2
    Tools = {}
    ToolCalls = 0
    TextChunks = 1
    Attempts = 2
    LLMFails = FALSE
    Heartbeats = 1
    EarlyTimeouts = 0
SPECIFICATION FairSpec
PROPERTIES EveryMessageForwarded
CHECK_DEADLOCK FALSE
