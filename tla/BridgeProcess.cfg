\* The parts of the bridge process beside the relay, one at a time.
CONSTANTS
    Attempts = 2
    Probes = 2
    Conns = 2
    Rounds = 1
    Commands = {"chat", "burnin"}
    EventSlots = 1
    Messages = 2
    Others = 1
    Replies = 1
    Ticks = 1
    Lines = 3
    Tokens = 3
    Calls = 2
    Backends = {"anthropic", "openai"}
    Turns = 5
    Providers = {"anthropic", "codex"}
    Scenarios = {"stop-screen", "screen-repeat", "direct-exec", "slow-exec",
                 "silent-completion", "wraparound", "overlap"}
    Checks = 3
    Runs = 4
    KeptSlots = 3

SPECIFICATION ProcessSpec

INVARIANTS
    ProcessTypeOK
    OneVICE LinkHasAgent FailureExplained Tidy
    NoMessageLost OffOnceBeforeReply
    EveryLineOnce
    LoginKept RetryRenewed KeyPickedUp
    HistoryTrue
    PassedRan FailsOnlyOnRace

PROPERTIES
    EveryStartEnds CallsEnd LinesGetOut

CHECK_DEADLOCK FALSE
