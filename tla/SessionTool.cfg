CONSTANTS
    PromptChunks = 1
    ResultChunks = 1
    QueueSlots = 1
    Keys = 1
    Retries = 1
    ScreenClears = FALSE
    Messages = 2
    Tools = {"exec"}
    ToolCalls = 2
    TextChunks = 1
    Attempts = 2
    LLMFails = FALSE
    Heartbeats = 0
    EarlyTimeouts = 0
SPECIFICATION Spec
INVARIANTS OneToolAtATime
CHECK_DEADLOCK FALSE
