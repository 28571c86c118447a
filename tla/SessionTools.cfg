CONSTANTS
    PromptChunks = 1
    ResultChunks = 2
    QueueSlots = 1
    Keys = 2
    Retries = 1
    ScreenClears = TRUE
    Messages = 1
    Tools = {"exec", "line", "screen", "stop", "status", "unknown"}
    ToolCalls = 2
    TextChunks = 1
    Attempts = 2
    LLMFails = TRUE
    Heartbeats = 1
    EarlyTimeouts = 1
SPECIFICATION Spec
INVARIANTS BasicOwned ShownOnce
CHECK_DEADLOCK FALSE
