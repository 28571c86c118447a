CONSTANTS
    PromptChunks = 1
    ResultChunks = 1
    QueueSlots = 1
    Keys = 1
    Retries = 1
    ScreenClears = TRUE
    Messages = 2
    Tools = {"exec", "line", "screen", "stop", "status", "unknown"}
    ToolCalls = 1
    TextChunks = 2
    Attempts = 1
    LLMFails = TRUE
    Heartbeats = 0
    EarlyTimeouts = 2
SPECIFICATION Spec
INVARIANTS TypeOK ShownOnce
CHECK_DEADLOCK FALSE
